---------------------------- MODULE Spec2Model ----------------------------
(***************************************************************************)
(* A model of two components of co-atc:                                    *)
(*                                                                         *)
(*   - internal/audio/multireader.go: the circular fan-out buffer          *)
(*     (MultiReader) with its per-reader cursors, condition variables and  *)
(*     the waiter goroutines a blocked Read starts;                        *)
(*   - internal/transcription/models.go: the post-processor's              *)
(*     processNextBatch over the transcriptions and clearances tables.     *)
(*                                                                         *)
(* Every action of the MultiReader part is one critical section of mr.mu   *)
(* (or one step of a goroutine between two critical sections).  Bytes are  *)
(* modelled by their write sequence number (the k-th byte ever written is  *)
(* k, the buffer's initial zero bytes are 0), so that where a returned     *)
(* byte came from can be told.                                             *)
(***************************************************************************)
EXTENDS Integers, Sequences, FiniteSets, TLC

\* ------------------------------------------------------------------ bounds
BufferSize == 3      \* mr.bufferSize, scaled down from 64 KiB
MaxBytes == 4        \* bytes the writer writes in one behaviour
MaxWrite == 2        \* longest p of one Write
MaxRead == 2         \* longest p of one Read
MaxWaiters == 2      \* waiter goroutines alive on one condition variable
MaxRows == 2         \* transcription rows stored in one behaviour
BatchSize == 2       \* config.BatchSize
ContextTranscriptions == 1   \* config.ContextTranscriptions
MaxClearances == 2   \* clearance rows stored in one behaviour
MaxAircraft == 1     \* longest list passed to DetectChanges

Ids == {"a", "b"}
Handles == {"h1", "h2"}

\* Two handles that CreateReader returned for the same id.
SharedHandles == {"h1", "h3"}

AllHandles == Handles \cup SharedHandles

HandleId == [h \in AllHandles |-> IF h = "h2" THEN "b" ELSE "a"]

NoReader == [exists |-> FALSE]
Stale == "stale"

VARIABLES
    buffer,      \* mr.buffer: position -> byte (its sequence number)
    writeIndex,  \* mr.writeIndex
    readers,     \* mr.readers: id -> readerState (or NoReader)
    closed,      \* mr.closed
    ctxDone,     \* mr.ctx is cancelled
    written,     \* ghost: bytes written so far
    client       \* per handle: the Read in progress and what it returned

mrVars == <<buffer, writeIndex, readers, closed, ctxDone, written, client>>

\* The post-processor's database.  The transcriptions table is the sequence
\* rows (a row's id is its index, rows are stored in created_at order); the
\* clearances table is the sequence clearances.  tick is a ghost: what the
\* last processNextBatch fetched, how the batch ended and what it wrote (phase
\* flips with every tick).
VARIABLES rows, clearances, tick

ppVars == <<rows, clearances, tick>>

\* The change detector.  previousAircraft is cd.previousAircraft (hex ->
\* aircraft, or NoAircraft for a hex that is not a key); changes is what the
\* last DetectChanges returned.  Ghosts: input is the list the last call was
\* given, emitted the type of the last event ever returned for each hex.
\* again: the last call was given the list of the call before it.
VARIABLES previousAircraft, changes, input, emitted, again

cdVars == <<previousAircraft, changes, input, emitted, again>>

\* Sensor validation: the arguments of one ValidateSensorData call and,
\* once it has returned, its three results.
VARIABLES sensor

svVars == <<sensor>>

\* Flying classification: the arguments of one IsFlying call and, once it
\* has returned, its result.
VARIABLES flying

flVars == <<flying>>

\* Runway detection: the arguments of one DetectRunwayApproach or
\* DetectRunwayDeparture call and, once it has returned, its result.
VARIABLES runway

rwVars == <<runway>>

\* Tail numbers: the argument of one IcaoToTailNumber call and, once it has
\* returned, its result.
VARIABLES tail

tnVars == <<tail>>

\* Weather client: one fetchWithRetry call.  Ghosts: requests counts the
\* HTTP attempts, waits lists the backoff sleeps in milliseconds.
VARIABLES fetch

wxVars == <<fetch>>

\* WAVReader: headerSent, and the ghosts consumed (how many bytes the
\* underlying reader has delivered), out (every byte Read has returned), and
\* the buffer length, count and error of the last Read.
VARIABLES wav

wvVars == <<wav>>

\* Context aggregator: the arguments of one getAircraftData call and, once
\* it has returned, the list it returned (as indexes into the tracker's
\* list) and the records it has written to.
VARIABLES agg

agVars == <<agg>>

\* WebSocketClient: listeners maps each listener type to its callbacks in
\* registration order.  Ghosts: last is the type of the last message the
\* handler processed, calls the callbacks it invoked, with their argument.
VARIABLES listeners, last, calls

wsVars == <<listeners, last, calls>>

\* Batch assembly: the context rows and the new rows processNextBatch has
\* fetched and, once assembled, the batch it marshals.
VARIABLES submit

sbVars == <<submit>>

\* One call of createWAVHeader: its arguments and the header bytes it returns.
VARIABLES hdr

whVars == <<hdr>>

\* One call of Client.StreamAudio: its position, loop variables, context and
\* the attempts and waits made so far.
VARIABLES stream

saVars == <<stream>>

\* WebSocketClient, connection side.  sock holds the fields of the client:
\* connection (the state of the socket this.connection refers to, or "null"),
\* isReconnecting, autoReconnect, reconnectAttempts, reconnectTimeout; and
\* what the browser still holds for it: stale, the sockets the client no
\* longer refers to and whose events are still to come, and olderTimers, the
\* pending reconnect timers whose id this.reconnectTimeout no longer holds.
\* Ghosts: connectCalls counts the application's connect() calls, sinceOpen
\* the reconnects scheduled since the last open event, sinceReset those
\* since reconnectAttempts was last set to 0.  inbox holds the deferred
\* message handlers not yet run (timers), the number of messages received,
\* and every listener call made for a message (notified).
VARIABLES sock, inbox

wcVars == <<sock, inbox>>

\* The post-processing loop and its shutdown.  proc holds the processor's
\* context (ctxDone), wait group counter (wg), config.Enabled, the position
\* of a Stop call, and the ghost stopped (a Stop call has returned); loops
\* holds, for every goroutine Start has launched, its position, whether its
\* ticker has a tick ready, and the ghost aborted (a language-model call of
\* its was aborted).
VARIABLES proc, loops

plVars == <<proc, loops>>

vars == <<mrVars, ppVars, cdVars, svVars, flVars, rwVars, tnVars, wxVars, wvVars, agVars, wsVars, sbVars, whVars, saVars, wcVars, plVars>>

\* What the actions of one component leave alone.
exceptMR == <<ppVars, cdVars, svVars, flVars, rwVars, tnVars, wxVars, wvVars, agVars, wsVars, sbVars, whVars, saVars, wcVars, plVars>>
exceptPP == <<mrVars, cdVars, svVars, flVars, rwVars, tnVars, wxVars, wvVars, agVars, wsVars, sbVars, whVars, saVars, wcVars, plVars>>
exceptCD == <<mrVars, ppVars, svVars, flVars, rwVars, tnVars, wxVars, wvVars, agVars, wsVars, sbVars, whVars, saVars, wcVars, plVars>>
exceptSV == <<mrVars, ppVars, cdVars, flVars, rwVars, tnVars, wxVars, wvVars, agVars, wsVars, sbVars, whVars, saVars, wcVars, plVars>>
exceptFL == <<mrVars, ppVars, cdVars, svVars, rwVars, tnVars, wxVars, wvVars, agVars, wsVars, sbVars, whVars, saVars, wcVars, plVars>>
exceptRW == <<mrVars, ppVars, cdVars, svVars, flVars, tnVars, wxVars, wvVars, agVars, wsVars, sbVars, whVars, saVars, wcVars, plVars>>
exceptTN == <<mrVars, ppVars, cdVars, svVars, flVars, rwVars, wxVars, wvVars, agVars, wsVars, sbVars, whVars, saVars, wcVars, plVars>>
exceptWX == <<mrVars, ppVars, cdVars, svVars, flVars, rwVars, tnVars, wvVars, agVars, wsVars, sbVars, whVars, saVars, wcVars, plVars>>
exceptWV == <<mrVars, ppVars, cdVars, svVars, flVars, rwVars, tnVars, wxVars, agVars, wsVars, sbVars, whVars, saVars, wcVars, plVars>>
exceptAG == <<mrVars, ppVars, cdVars, svVars, flVars, rwVars, tnVars, wxVars, wvVars, wsVars, sbVars, whVars, saVars, wcVars, plVars>>
exceptWS == <<mrVars, ppVars, cdVars, svVars, flVars, rwVars, tnVars, wxVars, wvVars, agVars, sbVars, whVars, saVars, wcVars, plVars>>
exceptSB == <<mrVars, ppVars, cdVars, svVars, flVars, rwVars, tnVars, wxVars, wvVars, agVars, wsVars, whVars, saVars, wcVars, plVars>>
exceptWH == <<mrVars, ppVars, cdVars, svVars, flVars, rwVars, tnVars, wxVars, wvVars, agVars, wsVars, sbVars, saVars, wcVars, plVars>>
exceptSA == <<mrVars, ppVars, cdVars, svVars, flVars, rwVars, tnVars, wxVars, wvVars, agVars, wsVars, sbVars, whVars, wcVars, plVars>>
exceptWC == <<mrVars, ppVars, cdVars, svVars, flVars, rwVars, tnVars, wxVars, wvVars, agVars, wsVars, sbVars, whVars, saVars, plVars>>
exceptWSWC == <<mrVars, ppVars, cdVars, svVars, flVars, rwVars, tnVars, wxVars, wvVars, agVars, sbVars, whVars, saVars, plVars>>
exceptPL == <<mrVars, ppVars, cdVars, svVars, flVars, rwVars, tnVars, wxVars, wvVars, agVars, wsVars, sbVars, whVars, saVars, wcVars>>

Min(a, b) == IF a < b THEN a ELSE b

\* A readerState as CreateReader builds it.  waiters is the condition
\* variable's notify list in ticket order; spawned counts abandoned waiter
\* goroutines that have not reached readCond.Wait() yet.  born and sync are
\* ghosts: the bytes written when it was created, and whether the stream it
\* delivered is still the written one ("ok"), the writer lapped its cursor
\* ("overrun"), a Read returned other bytes than the next unread ones
\* ("broken"), or a Read that had sampled a removed reader of the same id
\* stored its position into it ("moved").
NewReaderState ==
    [exists |-> TRUE, readIndex |-> writeIndex, closed |-> FALSE,
     waiters |-> <<>>, spawned |-> 0, born |-> written, sync |-> "ok"]

IdleClient ==
    [held |-> FALSE, pc |-> "idle", n |-> 0, readIndex |-> 0,
     available |-> 0, copied |-> 0, waiter |-> "none", chanClosed |-> FALSE,
     orphan |-> FALSE, emptyWake |-> FALSE, got |-> <<>>]

MRInit ==
    /\ buffer = [i \in 0..(BufferSize - 1) |-> 0]
    /\ writeIndex = 0
    /\ readers = [id \in Ids |-> NoReader]
    /\ closed = FALSE
    /\ ctxDone = FALSE
    /\ written = 0
    /\ client = [h \in AllHandles |-> IdleClient]


\* ------------------------------------------------- condition variables
\* readCond.Signal() on one reader: the runtime's notify list hands the
\* signal to the oldest ticket; with no goroutine in Wait() the signal is lost.
Signalled(r) == IF r.exists /\ r.waiters # <<>> THEN {Head(r.waiters)} ELSE {}

AfterSignal(r) == IF r.exists /\ r.waiters # <<>>
                  THEN [r EXCEPT !.waiters = Tail(r.waiters)]
                  ELSE r

\* The woken goroutine closes its waitChan (handle h's Read selects on it).
Woken(c) == [c EXCEPT !.chanClosed = TRUE, !.waiter = "none"]

\* Whether removing reader r leaves a waiter goroutine behind that nothing
\* signals again: Signal() released at most the first one.
LeavesWaiter(r) == r.exists /\ (Len(r.waiters) > 1 \/ r.spawned > 0)

\* A Read of handle h that is in progress loses its reader state.
Orphaned(c, gone) == IF gone /\ c.pc # "idle" THEN [c EXCEPT !.orphan = TRUE] ELSE c

\* ------------------------------------------------------------- Write
\* Lines 60-65: p[k] goes to position (writeIndex + k - 1) % bufferSize.
WriteBuffer(n) ==
    [i \in 0..(BufferSize - 1) |->
        LET ks == {k \in 1..n : (writeIndex + k - 1) % BufferSize = i}
        IN  IF ks = {} THEN buffer[i]
            ELSE written + (CHOOSE k \in ks : \A j \in ks : j <= k)]

\* The unread bytes of a reader whose cursor the writer has not lapped.
Backlog(r) == (writeIndex - r.readIndex + BufferSize) % BufferSize

\* Ghost: with n more bytes the writer gets bufferSize bytes ahead of the
\* reader's cursor.
Overrun(r, n) == IF r.exists /\ r.sync = "ok" /\ Backlog(r) + n >= BufferSize
                 THEN [r EXCEPT !.sync = "overrun"]
                 ELSE r

DoWrite(n) ==
    LET woken == UNION {Signalled(readers[id]) : id \in Ids}
    IN  /\ buffer' = WriteBuffer(n)
        /\ writeIndex' = (writeIndex + n) % BufferSize
        /\ written' = written + n
        /\ readers' = [id \in Ids |-> Overrun(AfterSignal(readers[id]), n)]
        /\ client' = [h \in AllHandles |->
                IF h \in woken THEN Woken(client[h]) ELSE client[h]]
        /\ UNCHANGED <<closed, ctxDone>>

\* A Write that waited for the slowest reader (per-reader backpressure).
WriteBackpressure(n) ==
    /\ written + n <= MaxBytes
    /\ IF closed THEN UNCHANGED mrVars
       ELSE /\ \A id \in Ids : readers[id].exists =>
                    Backlog(readers[id]) + n < BufferSize
            /\ DoWrite(n)
    /\ UNCHANGED exceptMR

\* A Write that does not look at mr.closed.
WriteAfterClose(n) ==
    /\ written + n <= MaxBytes
    /\ DoWrite(n)
    /\ UNCHANGED exceptMR

Write(n) ==
    /\ written + n <= MaxBytes
    /\ IF closed THEN UNCHANGED mrVars          \* return 0, io.ErrClosedPipe
       ELSE DoWrite(n)
    /\ UNCHANGED exceptMR

\* ------------------------------------------------------ CreateReader
CreateReader(h) ==
    LET id == HandleId[h] IN
    /\ readers' = IF readers[id].exists /\ ~readers[id].closed
                  THEN readers
                  ELSE [readers EXCEPT ![id] = NewReaderState]
    /\ client' = [client EXCEPT ![h].held = TRUE]
    /\ UNCHANGED <<buffer, writeIndex, closed, ctxDone, written, exceptMR>>

\* ------------------------------------------- RemoveReader and Close
RemoveReader(id) ==
    /\ IF readers[id].exists
       THEN /\ readers' = [readers EXCEPT ![id] = NoReader]
            /\ client' = [h \in AllHandles |->
                    LET c == IF h \in Signalled(readers[id])
                             THEN Woken(client[h]) ELSE client[h]
                    IN  Orphaned(c, HandleId[h] = id)]
       ELSE UNCHANGED <<readers, client>>
    /\ UNCHANGED <<buffer, writeIndex, closed, ctxDone, written, exceptMR>>

Close ==
    /\ IF closed THEN UNCHANGED mrVars
       ELSE /\ closed' = TRUE
            /\ ctxDone' = TRUE
            /\ readers' = [id \in Ids |-> NoReader]
            /\ client' = [h \in AllHandles |->
                    LET c == IF h \in Signalled(readers[HandleId[h]])
                             THEN Woken(client[h]) ELSE client[h]
                    IN  Orphaned(c, readers[HandleId[h]].exists)]
            /\ UNCHANGED <<buffer, writeIndex, written>>
    /\ UNCHANGED exceptMR

\* The context NewMultiReader derived mr.ctx from is cancelled.
CancelCtx ==
    /\ ~ctxDone
    /\ ctxDone' = TRUE
    /\ UNCHANGED <<buffer, writeIndex, readers, closed, written, client, exceptMR>>

\* -------------------------------------------------------------- Read
\* Lines 229-240: the bytes taken to be unread, limited to len(p).
Available(ri, wi, n) ==
    Min(IF wi > ri THEN wi - ri ELSE BufferSize - ri + wi, n)

\* Lines 246-249: the contiguous chunk of one copy.
ChunkSize(ri, available, copied) ==
    IF ri + (available - copied) > BufferSize
    THEN BufferSize - ri
    ELSE available - copied

\* Lines 186-190 and 224-226: the indices a Read samples under RLock.
Sampled(c, r, n) ==
    [IdleClient EXCEPT !.held = TRUE, !.pc = "copy", !.readIndex = r.readIndex,
              !.available = Available(r.readIndex, writeIndex, n)]

\* The Read returns: its locals are gone, the caller holds the result.
Returned == [IdleClient EXCEPT !.held = TRUE]

\* Lines 174-204: the state check, the sampling and, with no data, the start
\* of the waiter goroutine.
ReadBegin(h, n) ==
    LET id == HandleId[h]
        r == readers[id]
        c == client[h]
    IN  /\ c.held /\ c.pc = "idle"
        /\ IF ~r.exists \/ r.closed \/ closed
           THEN client' = [client EXCEPT ![h] = Returned]
           ELSE IF r.readIndex = writeIndex
           THEN /\ Len(r.waiters) + r.spawned < MaxWaiters
                /\ client' = [client EXCEPT ![h] =
                       [IdleClient EXCEPT !.held = TRUE, !.pc = "wait", !.n = n,
                                          !.waiter = "spawned"]]
           ELSE client' = [client EXCEPT ![h] = Sampled(c, r, n)]
        /\ UNCHANGED <<buffer, writeIndex, readers, closed, ctxDone, written, exceptMR>>

\* Lines 197-202: the waiter goroutine reaches readCond.Wait() and takes its
\* ticket on the condition variable it was given.
WaiterPark(h) ==
    LET id == HandleId[h]
        c == client[h]
    IN  /\ c.pc = "wait" /\ c.waiter = "spawned"
        /\ client' = [client EXCEPT ![h].waiter = "parked"]
        /\ readers' = IF c.orphan THEN readers
                      ELSE [readers EXCEPT ![id].waiters = Append(@, h)]
        /\ UNCHANGED <<buffer, writeIndex, closed, ctxDone, written, exceptMR>>

\* The waiter of a Read that has already returned reaches readCond.Wait().
StaleWaiterPark(id) ==
    /\ readers[id].exists /\ readers[id].spawned > 0
    /\ readers' = [readers EXCEPT ![id].spawned = @ - 1,
                                  ![id].waiters = Append(@, Stale)]
    /\ UNCHANGED <<buffer, writeIndex, closed, ctxDone, written, client, exceptMR>>

\* A Read leaves the select without its waiter: the goroutine stays behind.
Abandon(h) ==
    LET id == HandleId[h]
        c == client[h]
    IN  /\ client' = [client EXCEPT ![h] = Returned]
        /\ readers' =
               IF c.orphan \/ c.waiter = "none" THEN readers
               ELSE IF c.waiter = "spawned"
               THEN [readers EXCEPT ![id].spawned = @ + 1]
               ELSE [readers EXCEPT ![id].waiters =
                       [i \in 1..Len(@) |-> IF @[i] = h THEN Stale ELSE @[i]]]
        /\ UNCHANGED <<buffer, writeIndex, closed, ctxDone, written, exceptMR>>

\* Lines 210-211: case <-mrc.mr.ctx.Done().
ReadCtxDone(h) == client[h].pc = "wait" /\ ctxDone /\ Abandon(h)

\* Lines 212-214: case <-time.After(30 * time.Second).
ReadTimeout(h) == client[h].pc = "wait" /\ Abandon(h)

\* Lines 208-226: case <-waitChan, then the re-check and re-sampling.
ReadWake(h) ==
    LET id == HandleId[h]
        r == readers[id]
        c == client[h]
    IN  /\ c.pc = "wait" /\ c.chanClosed
        /\ client' = [client EXCEPT ![h] =
               IF ~r.exists \/ r.closed \/ closed
               THEN Returned
               ELSE [Sampled(c, r, c.n) EXCEPT !.emptyWake = (r.readIndex = writeIndex)]]
        /\ UNCHANGED <<buffer, writeIndex, readers, closed, ctxDone, written, exceptMR>>

\* Lines 244-258: one chunk is copied under RLock.
ReadCopy(h) ==
    LET c == client[h]
        chunk == ChunkSize(c.readIndex, c.available, c.copied)
        done == c.copied + chunk = c.available
    IN  /\ c.pc = "copy"
        /\ client' = [client EXCEPT ![h] =
               [c EXCEPT !.got = @ \o [j \in 1..chunk |-> buffer[c.readIndex + j - 1]],
                         !.copied = @ + chunk,
                         !.readIndex = (@ + chunk) % BufferSize,
                         !.pc = IF done THEN "update" ELSE "copy"]]
        /\ UNCHANGED <<buffer, writeIndex, readers, closed, ctxDone, written, exceptMR>>

\* The bytes a reader that is in step with the writer has not been given yet
\* start at this sequence number.
NextUnread(r) == written - Backlog(r) + 1

\* Ghost: the reader's stream after this Read returned c.got.
Delivered(r, c) ==
    IF r.sync # "ok" THEN r
    ELSE IF c.orphan
    THEN [r EXCEPT !.sync = IF c.readIndex = r.readIndex THEN "ok" ELSE "moved"]
    ELSE IF c.got = [j \in 1..c.copied |-> NextUnread(r) + j - 1]
    THEN r
    ELSE [r EXCEPT !.sync = "broken"]

\* A Read that stores its position into every registered reader.
ReadUpdateEveryCursor(h) ==
    /\ client[h].pc = "update"
    /\ readers' = [id \in Ids |->
                      IF readers[id].exists /\ ~readers[id].closed
                      THEN [readers[id] EXCEPT !.readIndex = client[h].readIndex]
                      ELSE readers[id]]
    /\ client' = [client EXCEPT ![h] = Returned]
    /\ UNCHANGED <<buffer, writeIndex, closed, ctxDone, written, exceptMR>>

\* Lines 260-267: the read position is stored and the Read returns.
ReadUpdate(h) ==
    LET id == HandleId[h]
        r == readers[id]
        c == client[h]
    IN  /\ c.pc = "update"
        /\ readers' = IF r.exists /\ ~r.closed
                      THEN [readers EXCEPT ![id] =
                              [Delivered(r, c) EXCEPT !.readIndex = c.readIndex]]
                      ELSE readers
        /\ client' = [client EXCEPT ![h] = Returned]
        /\ UNCHANGED <<buffer, writeIndex, closed, ctxDone, written, exceptMR>>

\* ------------------------------------------------------ specification
\* The writer and the Reads of the handles in H.
DataPath(H) ==
    \/ \E n \in 0..MaxWrite : Write(n)
    \/ \E h \in H : CreateReader(h)
    \/ \E h \in H, n \in 1..MaxRead : ReadBegin(h, n)
    \/ \E h \in H : WaiterPark(h)
    \/ \E h \in H : ReadWake(h)
    \/ \E h \in H : ReadCopy(h)
    \/ \E h \in H : ReadUpdate(h)

\* Removal, shutdown and the ways a Read leaves its wait without data.
Lifecycle(H) ==
    \/ \E h \in H : RemoveReader(HandleId[h])
    \/ Close
    \/ CancelCtx
    \/ \E h \in H : StaleWaiterPark(HandleId[h])
    \/ \E h \in H : ReadCtxDone(h)
    \/ \E h \in H : ReadTimeout(h)

FanoutNext == DataPath(Handles)

\* Two handles of one id, each read and closed by its own goroutine.
SharedNext ==
    \/ DataPath(SharedHandles)
    \/ \E h \in SharedHandles : RemoveReader(HandleId[h])

LifecycleNext == DataPath({"h1"}) \/ Lifecycle({"h1"})

\* ===================================================== post-processor
Freqs == {"f1", "f2"}

TemplateRenderFailed == "[TEMPLATE_RENDER_FAILED]"
ProcessingFailed == "[PROCESSING_FAILED]"
NoResultsFromAPI == "[NO_RESULTS_FROM_API]"
Sentinels == {TemplateRenderFailed, ProcessingFailed, NoResultsFromAPI}

\* What the language model can answer for one row: an empty
\* content_processed (the other fields are then never read), or a cleaned
\* text with a speaker type and a number of clearances.
LMResults(ids) ==
    [id : ids, content : {""}, speaker : {"PILOT"}, nclear : {0}]
        \cup [id : ids, content : {"clean"}, speaker : {"ATC", "PILOT"}, nclear : {0, 1}]

\* The result lists of at most two entries (an id may occur twice).
LMLists(ids) ==
    {<<>>} \cup {<<a>> : a \in LMResults(ids)}
           \cup {<<a, b>> : a \in LMResults(ids), b \in LMResults(ids)}

NoTick == [phase |-> 0, outcome |-> "none", fetched |-> <<>>, lmCalled |-> FALSE,
           updated |-> {}, cleared |-> {}, events |-> <<>>,
           failed |-> {}, refused |-> {}]

PPInit ==
    /\ rows = <<>>
    /\ clearances = <<>>
    /\ tick = NoTick

\* The transcription client persists a completed turn with is_processed=false.
StoreTranscription(f) ==
    /\ Len(rows) < MaxRows
    /\ rows' = Append(rows, [freq |-> f, processed |-> FALSE,
                             content_processed |-> "", speaker |-> ""])
    /\ UNCHANGED <<clearances, tick, exceptPP>>

\* GetUnprocessedTranscriptions(limit): ids with is_processed=false, oldest
\* first, at most limit.
RECURSIVE FirstUnprocessed(_, _, _)
FirstUnprocessed(rs, from, limit) ==
    IF from > Len(rs) \/ limit = 0 THEN <<>>
    ELSE IF ~rs[from].processed
    THEN <<from>> \o FirstUnprocessed(rs, from + 1, limit - 1)
    ELSE FirstUnprocessed(rs, from + 1, limit)

GetUnprocessedTranscriptions(rs, limit) == FirstUnprocessed(rs, 1, limit)

\* GetLastProcessedTranscriptions(frequencyID, limit): the ids of the last
\* limit processed rows of the frequency.
GetLastProcessedTranscriptions(rs, f, limit) ==
    LET done == {i \in 1..Len(rs) : rs[i].processed /\ rs[i].freq = f}
    IN  {i \in done : Cardinality({j \in done : j > i}) < limit}

\* UpdateProcessedTranscription(id, content, speaker, callsign): sets the
\* processed columns of row id and marks it processed; no row, no change.
UpdateProcessedTranscription(rs, id, content, speaker) ==
    IF id \in 1..Len(rs)
    THEN [rs EXCEPT ![id] = [@ EXCEPT !.processed = TRUE,
                                      !.content_processed = content,
                                      !.speaker = speaker]]
    ELSE rs

\* StoreClearance: one row is inserted, its id is the next row number.
StoreClearance(cl, record) == Append(cl, record)

SeqToSet(q) == {q[i] : i \in 1..Len(q)}

\* Every failure writes the language-model sentinel.
SentinelOfOneKind(renders, answers) == ProcessingFailed

\* Lines 262-323: the processed text written to a batch that yields no
\* results, by what went wrong.
Sentinel(renders, answers) ==
    IF ~renders THEN TemplateRenderFailed
    ELSE IF ~answers THEN ProcessingFailed
    ELSE NoResultsFromAPI

\* Only the first record of the batch is written.
MarkFirstFailed(rs, records, sentinel, fail) ==
    IF records = <<>> \/ Head(records) \in fail THEN rs
    ELSE UpdateProcessedTranscription(rs, Head(records), sentinel, "UNKNOWN")

\* Lines 266-277, 291-302, 310-321: every fetched record is written with the
\* sentinel and speaker UNKNOWN; a failed update is logged and skipped.
RECURSIVE MarkFailed(_, _, _, _)
MarkFailed(rs, records, sentinel, fail) ==
    IF records = <<>> THEN rs
    ELSE LET id == Head(records)
             next == IF id \in fail THEN rs
                     ELSE UpdateProcessedTranscription(rs, id, sentinel, "UNKNOWN")
         IN  MarkFailed(next, Tail(records), sentinel, fail)

\* Lines 499-521 and 454-488: the WebSocket messages the tick broadcasts.
ClearanceIssued(clearanceID) == [type |-> "clearance_issued", id |-> clearanceID]

TranscriptionUpdate(id, content, speaker) ==
    [type |-> "transcription_update", id |-> id,
     content_processed |-> content, speaker_type |-> speaker]

\* A clearance list is stored whoever speaks.
StoresAnyClearance(result) == result.nclear > 0

\* Line 365: clearances are processed for an ATC transmission with a
\* non-empty clearance list.
StoresClearance(result) == result.speaker = "ATC" /\ result.nclear > 0

\* Only context records are skipped.
SkipsContextOnly(result, context) == result.id \in context

\* Lines 328-349: a result is skipped when its content_processed is empty or
\* its id is the id of a context record.
SkipsResult(result, context) ==
    result.content = "" \/ result.id \in context

\* Lines 326-424: the loop over the results.  st is the state so far: the
\* two tables, the ids updated and the transcription ids of the clearances
\* inserted.
ApplyResult(st, result, records, context, fail, refuse) ==
    IF SkipsResult(result, context) \/ result.id \in fail THEN st
    ELSE LET stored == StoresClearance(result) /\ result.id \notin refuse
             issued == IF stored
                       THEN <<ClearanceIssued(Len(st.clearances) + 1)>>
                       ELSE <<>>
             announced == IF result.id \in SeqToSet(records)
                          THEN <<TranscriptionUpdate(result.id, result.content,
                                                     result.speaker)>>
                          ELSE <<>>
         IN  [rows |-> UpdateProcessedTranscription(st.rows, result.id,
                                                    result.content, result.speaker),
              clearances |-> IF stored
                             THEN StoreClearance(st.clearances,
                                      [transcription_id |-> result.id,
                                       status |-> "issued",
                                       speaker_type |-> result.speaker])
                             ELSE st.clearances,
              updated |-> st.updated \cup {result.id},
              cleared |-> IF stored THEN st.cleared \cup {result.id} ELSE st.cleared,
              events |-> st.events \o issued \o announced]

RECURSIVE ApplyResults(_, _, _, _, _, _)
ApplyResults(st, results, records, context, fail, refuse) ==
    IF results = <<>> THEN st
    ELSE ApplyResults(ApplyResult(st, Head(results), records, context, fail, refuse),
                      Tail(results), records, context, fail, refuse)

\* Lines 200-209: the frequency of the batch (whose name heads the user
\* payload) is the frequency of the first fetched record.
FrequencyID(rs, records) == rs[Head(records)].freq

\* Lines 185-427: one tick of the loop.  renders is whether the template
\* renders, answers whether the language-model call returns without error,
\* lm its result list, fail the ids whose UPDATE and refuse the transcription
\* ids whose clearance INSERT the database refuses in this tick.
ProcessNextBatch(renders, answers, lm, fail, refuse) ==
    LET records == GetUnprocessedTranscriptions(rows, BatchSize)
        frequencyID == FrequencyID(rows, records)
        context == IF ContextTranscriptions > 0
                   THEN GetLastProcessedTranscriptions(rows, frequencyID,
                                                       ContextTranscriptions)
                   ELSE {}
        sentinel == Sentinel(renders, answers)
        outcome == IF ~renders THEN "render_failed"
                   ELSE IF ~answers THEN "lm_error"
                   ELSE IF lm = <<>> THEN "no_results"
                   ELSE "results"
        start == [rows |-> rows, clearances |-> clearances,
                  updated |-> {}, cleared |-> {}, events |-> <<>>]
        end == IF outcome = "results"
               THEN ApplyResults(start, lm, records, context, fail, refuse)
               ELSE [start EXCEPT !.rows = MarkFailed(rows, records, sentinel, fail),
                                  !.updated = SeqToSet(records) \ fail]
    IN  IF records = <<>>
        THEN /\ renders /\ answers /\ lm = <<>>      \* nothing is rendered or sent
             /\ tick' = [NoTick EXCEPT !.phase = 1 - tick.phase, !.outcome = "empty"]
             /\ UNCHANGED <<rows, clearances>>
        ELSE /\ Len(end.clearances) <= MaxClearances
             /\ rows' = end.rows
             /\ clearances' = end.clearances
             /\ tick' = [phase |-> 1 - tick.phase, outcome |-> outcome,
                         fetched |-> records, lmCalled |-> renders,
                         updated |-> end.updated, cleared |-> end.cleared,
                         events |-> end.events,
                         failed |-> fail, refused |-> refuse]

Tick ==
    \E renders \in BOOLEAN, answers \in BOOLEAN :
    \E lm \in LMLists(1..Len(rows)) :
        /\ (~renders => answers)
        /\ (~renders \/ ~answers) => lm = <<>>
        /\ ProcessNextBatch(renders, answers, lm, {}, {})
        /\ UNCHANGED exceptPP

PPNext ==
    \/ \E f \in Freqs : StoreTranscription(f)
    \/ Tick

\* The ids a tick with answer lm calls UpdateProcessedTranscription for at
\* the latest (every fetched record when there are no results), and the ids
\* it may call StoreClearance for.
Attempted(lm) ==
    IF lm = <<>> THEN SeqToSet(GetUnprocessedTranscriptions(rows, BatchSize))
    ELSE {lm[i].id : i \in 1..Len(lm)}

Extracted(lm) == {lm[i].id : i \in {j \in 1..Len(lm) : StoresClearance(lm[j])}}

\* A tick in which the database refuses some of the writes.
FaultyTick ==
    \E renders \in BOOLEAN, answers \in BOOLEAN :
    \E lm \in LMLists(1..Len(rows)) :
    \E fail \in SUBSET Attempted(lm) :
    \E refuse \in SUBSET (Extracted(lm) \ fail) :
        /\ (~renders => answers)
        /\ (~renders \/ ~answers) => lm = <<>>
        /\ ProcessNextBatch(renders, answers, lm, fail, refuse)
        /\ UNCHANGED exceptPP

PPFaultNext ==
    \/ \E f \in Freqs : StoreTranscription(f)
    \/ FaultyTick

\* ===================================================== change detector
Hexes == {"x", "y"}

\* A hex that is not a key of a map, and the nil *Aircraft of a removed event.
NoAircraft == [exists |-> FALSE]

\* A nil ADSB pointer.
NilADSB == [present |-> FALSE]

\* The aircraft of the data model, one field for each way hasAnyChanges
\* treats a field.  AltBaro stands for the ADSB fields it compares (Lat, Lon,
\* AltBaro, Track, GS, TAS, BaroRate, MagHeading, TrueHeading), Squawk for the
\* kinematic and derived fields it does not read (squawk, track rate,
\* bearings, trail, predictions), LastSeen for the fields of the aircraft
\* itself it compares (Flight, Status, OnGround, Phase, Distance, LastSeen).
ADSBs ==
    {NilADSB} \cup {[present |-> TRUE, AltBaro |-> v[1], Squawk |-> v[2]] :
                        v \in {<<0, 0>>, <<1, 0>>, <<0, 1>>}}

Aircraft == [exists : {TRUE}, Hex : Hexes, ADSB : ADSBs, LastSeen : {0, 1}]

\* The lists a caller can pass (a hex may occur twice).
AircraftLists ==
    UNION {[1..n -> Aircraft] : n \in 0..MaxAircraft}

\* Every pair of snapshots counts as changed.
AlwaysChanged(previous, current) == TRUE

\* Lines 78-156.
hasAnyChanges(previous, current) ==
    \/ /\ previous.ADSB.present /\ current.ADSB.present
       /\ previous.ADSB.AltBaro # current.ADSB.AltBaro
    \/ /\ ~(previous.ADSB.present /\ current.ADSB.present)
       /\ previous.ADSB.present # current.ADSB.present
    \/ previous.LastSeen # current.LastSeen

\* Lines 34-39: the map by hex; a later entry of the list replaces an
\* earlier one of the same hex.
CurrentMap(currentAircraft) ==
    [hex \in Hexes |->
        LET at == {i \in 1..Len(currentAircraft) : currentAircraft[i].Hex = hex}
        IN  IF at = {} THEN NoAircraft
            ELSE currentAircraft[CHOOSE i \in at : \A j \in at : j <= i]]

AircraftChange(type, aircraft, hex) ==
    [Type |-> type, Aircraft |-> aircraft, Hex |-> hex]

\* The first loop reports no new aircraft.
UpdatedOnly(previous, currentMap) ==
    {AircraftChange("updated", currentMap[hex], hex) :
        hex \in {h \in Hexes : /\ currentMap[h].exists /\ previous[h].exists
                                /\ hasAnyChanges(previous[h], currentMap[h])}}

\* Lines 42-60: the events of the first loop.
AddedOrUpdated(previous, currentMap) ==
    {AircraftChange("added", currentMap[hex], hex) :
        hex \in {h \in Hexes : currentMap[h].exists /\ ~previous[h].exists}}
    \cup
    {AircraftChange("updated", currentMap[hex], hex) :
        hex \in {h \in Hexes : /\ currentMap[h].exists /\ previous[h].exists
                                /\ hasAnyChanges(previous[h], currentMap[h])}}

\* Every hex missing from the current list is reported.
RemovedWithoutPrevious(previous, currentMap) ==
    {AircraftChange("removed", NoAircraft, hex) :
        hex \in {h \in Hexes : ~currentMap[h].exists}}

\* Lines 63-70: the events of the second loop.
Removed(previous, currentMap) ==
    {AircraftChange("removed", NoAircraft, hex) :
        hex \in {h \in Hexes : previous[h].exists /\ ~currentMap[h].exists}}

\* A Go map is ranged over in an unspecified order.
Orderings(S) ==
    {q \in [1..Cardinality(S) -> S] :
        \A i, j \in 1..Cardinality(S) : q[i] = q[j] => i = j}

\* Lines 32-75.
DetectChanges(currentAircraft) ==
    LET currentMap == CurrentMap(currentAircraft)
    IN  /\ \E first \in Orderings(AddedOrUpdated(previousAircraft, currentMap)) :
           \E second \in Orderings(Removed(previousAircraft, currentMap)) :
               changes' = first \o second
        /\ previousAircraft' = currentMap
        /\ input' = currentAircraft
        /\ again' = (currentAircraft = input)
        /\ emitted' = [hex \in Hexes |->
               LET of == {i \in 1..Len(changes') : changes'[i].Hex = hex}
               IN  IF of = {} THEN emitted[hex]
                   ELSE changes'[CHOOSE i \in of : \A j \in of : j <= i].Type]
        /\ UNCHANGED exceptCD

\* NewChangeDetector, lines 16-21.
CDInit ==
    /\ previousAircraft = [hex \in Hexes |-> NoAircraft]
    /\ changes = <<>>
    /\ input = <<>>
    /\ emitted = [hex \in Hexes |-> "none"]
    /\ again = FALSE

CDNext == \E currentAircraft \in AircraftLists : DetectChanges(currentAircraft)

\* ==================================================== sensor validation
\* Two flight-phase configurations: thresholds of an airliner airport, and
\* low thresholds.  ApproachMaxDistanceNM is in nautical miles,
\* ApproachCenterlineToleranceNM in tenths of a nautical mile (0.5 NM).
Configs ==
    {[ImpossibleAltDropThresholdFt |-> 10000, ImpossibleSpeedDropThresholdKts |-> 100,
      ImpossibleSpeedDropMinAltFt |-> 5000, FlyingMinTASKts |-> 50,
      FlyingMinAltFt |-> 700, HelicopterAltMultiplier |-> 2,
      HighAltitudeOverrideFt |-> 10000, HighSpeedThresholdKts |-> 250,
      ApproachMaxDistanceNM |-> 10, ApproachHeadingToleranceDeg |-> 30,
      ApproachCenterlineToleranceNM |-> 5],
     [ImpossibleAltDropThresholdFt |-> 800, ImpossibleSpeedDropThresholdKts |-> 40,
      ImpossibleSpeedDropMinAltFt |-> 500, FlyingMinTASKts |-> 40,
      FlyingMinAltFt |-> 500, HelicopterAltMultiplier |-> 2,
      HighAltitudeOverrideFt |-> 5000, HighSpeedThresholdKts |-> 100,
      ApproachMaxDistanceNM |-> 10, ApproachHeadingToleranceDeg |-> 15,
      ApproachCenterlineToleranceNM |-> 5]}

\* Altitudes (ft) and speeds (kt) on both sides of every threshold.
PrevAlts == {0, 700, 900, 1000, 1001, 5001, 12000}
PrevSpeeds == {0, 26, 42, 43, 50, 51, 120, 300}
CurrentAlts == {0, 800}
CurrentSpeeds == {0, 90}

\* An altitude rule that undoes a drop to 0 only beyond airportRangeNM.
CorrectedAltFarOnly(currentAlt, prevAlt, far, config) ==
    IF currentAlt = 0 /\ prevAlt > 1000 /\ far THEN prevAlt ELSE currentAlt

\* Lines 284-293: the altitude with a drop to 0 undone.  far is
\* distanceToAirportNM > airportRangeNM (line 280).
CorrectedAlt(currentAlt, prevAlt, far, config) ==
    IF currentAlt = 0 /\ prevAlt > config.ImpossibleAltDropThresholdFt THEN prevAlt
    ELSE IF currentAlt = 0 /\ prevAlt > 5000 /\ far THEN prevAlt
    ELSE IF currentAlt = 0 /\ prevAlt > 1000 /\ far THEN prevAlt
    ELSE currentAlt

\* Lines 297-311: the same for TAS and for GS.
CorrectedSpeed(current, prev, prevAlt, far, config) ==
    IF /\ current = 0 /\ prev > config.ImpossibleSpeedDropThresholdKts
       /\ prevAlt > config.ImpossibleSpeedDropMinAltFt
    THEN prev
    ELSE IF current = 0 /\ prev > 42 /\ far THEN prev
    ELSE current

\* Lines 316-317: all three values dropped to zero from a flying state.
CombinedDrop(currentTAS, currentGS, currentAlt, prevTAS, prevGS, prevAlt) ==
    /\ currentAlt = 0 /\ currentTAS = 0 /\ currentGS = 0
    /\ prevAlt > 1000 /\ (prevTAS > 50 \/ prevGS > 50)

\* Lines 274-325: returns <<correctedTAS, correctedGS, correctedAlt>>.
ValidateSensorData(currentTAS, currentGS, currentAlt, prevTAS, prevGS, prevAlt, far, config) ==
    IF CombinedDrop(currentTAS, currentGS, currentAlt, prevTAS, prevGS, prevAlt)
    THEN <<prevTAS, prevGS, prevAlt>>
    ELSE <<CorrectedSpeed(currentTAS, prevTAS, prevAlt, far, config),
           CorrectedSpeed(currentGS, prevGS, prevAlt, far, config),
           CorrectedAlt(currentAlt, prevAlt, far, config)>>

\* A classification whose speed-and-altitude rule excludes its boundary.
IsFlyingAboveMinimum(tas, gs, altitude, config) ==
    LET speed == IF tas = 0 THEN gs ELSE tas
    IN  \/ altitude >= config.HighAltitudeOverrideFt
        \/ speed > config.FlyingMinTASKts /\ altitude > config.FlyingMinAltFt
        \/ /\ altitude >= config.FlyingMinAltFt * config.HelicopterAltMultiplier
           /\ 2 * speed > config.FlyingMinTASKts
        \/ speed >= config.HighSpeedThresholdKts

\* Lines 330-361.
IsFlying(tas, gs, altitude, config) ==
    LET speed == IF tas = 0 THEN gs ELSE tas
    IN  \/ altitude >= config.HighAltitudeOverrideFt
        \/ speed >= config.FlyingMinTASKts /\ altitude >= config.FlyingMinAltFt
        \/ /\ altitude >= config.FlyingMinAltFt * config.HelicopterAltMultiplier
           /\ 2 * speed > config.FlyingMinTASKts
        \/ speed >= config.HighSpeedThresholdKts

\* Altitudes and speeds at and next to every threshold IsFlying compares.
FlyAlts == PrevAlts \cup {500, 1399, 1400, 4999, 5000, 10000}
FlySpeeds == PrevSpeeds \cup {20, 21, 25, 40, 100, 250}

\* No call is in progress.
SVIdle == sensor = [pc |-> "idle"]

FLIdle == flying = [pc |-> "idle"]

\* IsFlying is about to classify one (tas, gs, altitude).
FLInit ==
    flying \in [pc : {"call"}, config : Configs, tas : FlySpeeds,
                gs : FlySpeeds, altitude : FlyAlts, result : {FALSE}]

Classify ==
    /\ flying.pc = "call"
    /\ flying' = [flying EXCEPT !.pc = "done",
                     !.result = IsFlying(flying.tas, flying.gs,
                                         flying.altitude, flying.config)]
    /\ UNCHANGED exceptFL

\* The merge step is about to validate one incoming record.
SVInit ==
    sensor \in [pc : {"call"}, config : Configs, far : BOOLEAN,
                currentTAS : CurrentSpeeds, currentGS : CurrentSpeeds,
                currentAlt : CurrentAlts,
                prevTAS : PrevSpeeds, prevGS : PrevSpeeds, prevAlt : PrevAlts,
                tas : {0}, gs : {0}, alt : {0}]

Validate ==
    /\ sensor.pc = "call"
    /\ LET out == ValidateSensorData(sensor.currentTAS, sensor.currentGS,
                                     sensor.currentAlt, sensor.prevTAS,
                                     sensor.prevGS, sensor.prevAlt,
                                     sensor.far, sensor.config)
       IN  sensor' = [sensor EXCEPT !.pc = "done", !.tas = out[1],
                                    !.gs = out[2], !.alt = out[3]]
    /\ UNCHANGED exceptSV

SVNext == Validate \/ Classify

\* ===================================================== runway detection
\* One runway pair "05-23" of runways.json.  Distances computed by Haversine
\* and bearings computed by CalculateBearing are arguments of the model, in
\* tenths of a nautical mile and in whole degrees.
Thresholds == {"05", "23"}

\* getOppositeThreshold for the pair "05-23".
getOppositeThreshold(thresholdID) == IF thresholdID = "05" THEN "23" ELSE "05"

Headings == {0, 10, 40, 41, 70, 71, 200, 350}
ApproachDistances == {50, 100, 101}
DepartureDistances == {50, 109, 110, 150, 151}
CenterlineDistances == {0, 5, 6}
Altitudes == {3000, 5000, 5001}
StationBearings == {100, 101, 280}

\* math.Abs(a - b), folded into 0..180.
HeadingDiff(a, b) ==
    LET d == IF a >= b THEN a - b ELSE b - a
    IN  IF d > 180 THEN 360 - d ELSE d

NoRunway == [found |-> FALSE, RunwayID |-> "", distanceNM |-> 0]

\* Lines 873-926: the body of the loop for one threshold.  st is
\* <<bestApproach, minDistance>>.
ApproachThreshold(st, call, thresholdID) ==
    LET distanceNM == call.distanceNM[thresholdID]
        headingDiff == HeadingDiff(call.heading, call.runwayHeading[thresholdID])
    IN  IF distanceNM > call.config.ApproachMaxDistanceNM * 10 THEN st
        ELSE IF getOppositeThreshold(thresholdID) \notin call.present THEN st
        ELSE IF headingDiff > call.config.ApproachHeadingToleranceDeg THEN st
        ELSE IF /\ call.centerline[thresholdID]
                      <= call.config.ApproachCenterlineToleranceNM
                /\ distanceNM < st[2]
             THEN <<[found |-> TRUE, RunwayID |-> thresholdID,
                     distanceNM |-> distanceNM], distanceNM>>
             ELSE st

\* Lines 1003-1058: the body of the loop for one threshold.
DepartureThreshold(st, call, thresholdID) ==
    LET distanceNM == call.distanceNM[thresholdID]
        headingDiff == HeadingDiff(call.heading, call.runwayHeading[thresholdID])
        awayHeadingDiff == HeadingDiff(call.heading, call.bearingToStation)
    IN  IF 2 * distanceNM > 3 * call.config.ApproachMaxDistanceNM * 10 THEN st
        ELSE IF getOppositeThreshold(thresholdID) \notin call.present THEN st
        ELSE IF /\ headingDiff <= call.config.ApproachHeadingToleranceDeg * 2
                /\ awayHeadingDiff >= 90
                /\ distanceNM < st[2]
             THEN <<[found |-> TRUE, RunwayID |-> thresholdID,
                     distanceNM |-> distanceNM], distanceNM>>
             ELSE st

RECURSIVE OverThresholds(_, _, _)
\* The range loops of lines 871-872 and 1001-1002, in the order the map
\* iteration yields the thresholds.
OverThresholds(st, call, order) ==
    IF order = <<>> THEN st
    ELSE OverThresholds(IF call.op = "approach"
                        THEN ApproachThreshold(st, call, Head(order))
                        ELSE DepartureThreshold(st, call, Head(order)),
                        call, Tail(order))

\* Lines 866-930 and 996-1062: minDistance starts one nautical mile beyond
\* ApproachMaxDistanceNM.
DetectRunway(call, order) ==
    OverThresholds(<<NoRunway, call.config.ApproachMaxDistanceNM * 10 + 10>>,
                   call, order)[1]

RWIdle == runway = [pc |-> "idle"]

RWInit ==
    \/ runway \in [pc : {"call"}, op : {"approach"}, config : Configs,
                    heading : Headings, altitude : Altitudes,
                    present : {Thresholds, {"05"}},
                    distanceNM : [Thresholds -> ApproachDistances],
                    runwayHeading : {[t \in Thresholds |-> IF t = "05" THEN 10 ELSE 190],
                                     [t \in Thresholds |-> IF t = "05" THEN 190 ELSE 10]},
                    centerline : [Thresholds -> CenterlineDistances],
                    bearingToStation : {0}, result : {NoRunway}]
    \/ runway \in [pc : {"call"}, op : {"departure"}, config : Configs,
                    heading : Headings, altitude : {0},
                    present : {Thresholds, {"05"}},
                    distanceNM : [Thresholds -> DepartureDistances],
                    runwayHeading : {[t \in Thresholds |-> IF t = "05" THEN 10 ELSE 190],
                                     [t \in Thresholds |-> IF t = "05" THEN 190 ELSE 10]},
                    centerline : {[t \in Thresholds |-> 0]},
                    bearingToStation : StationBearings, result : {NoRunway}]

DetectRunwayApproach ==
    /\ runway.pc = "call" /\ runway.op = "approach"
    /\ \E order \in Orderings(runway.present) :
           runway' = [runway EXCEPT !.pc = "done",
                                    !.result = DetectRunway(runway, order)]
    /\ UNCHANGED exceptRW

DetectRunwayDeparture ==
    /\ runway.pc = "call" /\ runway.op = "departure"
    /\ \E order \in Orderings(runway.present) :
           runway' = [runway EXCEPT !.pc = "done",
                                    !.result = DetectRunway(runway, order)]
    /\ UNCHANGED exceptRW

RWNext == DetectRunwayApproach \/ DetectRunwayDeparture

\* ========================================================= tail numbers
\* Strings are sequences of one-character strings.
usCharset == <<"A", "B", "C", "D", "E", "F", "G", "H", "J", "K", "L", "M", "N", "P", "Q", "R", "S", "T", "U", "V", "W", "X", "Y", "Z">>
digitset == <<"0", "1", "2", "3", "4", "5", "6", "7", "8", "9">>
caAlphabet == <<"A", "B", "C", "D", "E", "F", "G", "H", "I", "J", "K", "L", "M", "N", "O", "P", "Q", "R", "S", "T", "U", "V", "W", "X", "Y", "Z">>
usAllChars == usCharset \o digitset
HexDigits == <<"0", "1", "2", "3", "4", "5", "6", "7", "8", "9", "A", "B", "C", "D", "E", "F">>

\* Lines 523-534.
usCharsetLen == Len(usCharset)
usDigitsetLen == Len(digitset)
usAllCharsLen == Len(usAllChars)
usSuffixSize == 1 + usCharsetLen * (1 + usCharsetLen)
usBucket4Size == 1 + usCharsetLen + usDigitsetLen
usBucket3Size == usDigitsetLen * usBucket4Size + usSuffixSize
usBucket2Size == usDigitsetLen * usBucket3Size + usSuffixSize
usBucket1Size == usDigitsetLen * usBucket2Size + usSuffixSize
caAlphabetLen == Len(caAlphabet)
caMax3LetterVal == caAlphabetLen * caAlphabetLen * caAlphabetLen

\* The index (from 0) of character c in string str.
IndexOf(c, str) == (CHOOSE i \in 1..Len(str) : str[i] = c) - 1

RECURSIVE ParseHex(_)
\* strconv.ParseInt(valHex, 16, 64) on a string of hex digits.
ParseHex(valHex) ==
    IF valHex = <<>> THEN 0
    ELSE ParseHex(SubSeq(valHex, 1, Len(valHex) - 1)) * 16
             + IndexOf(valHex[Len(valHex)], HexDigits)

\* strconv.Itoa of one decimal digit.
Itoa(dig) == <<digitset[dig + 1]>>

Ok(str) == [ok |-> TRUE, tail |-> str]
Fail == [ok |-> FALSE, tail |-> <<>>]

\* A suffix whose first letter is taken with the divisor usCharsetLen.
getSuffixUSNarrow(offset) ==
    IF offset = 0 THEN <<>>
    ELSE LET char0Idx == (offset - 1) \div usCharsetLen
             rem == (offset - 1) % (usCharsetLen + 1)
         IN  IF char0Idx >= usCharsetLen THEN <<"!">>
             ELSE IF rem = 0 THEN <<usCharset[char0Idx + 1]>>
             ELSE <<usCharset[char0Idx + 1], usCharset[rem]>>

\* Lines 542-560.
getSuffixUS(offset) ==
    IF offset = 0 THEN <<>>
    ELSE LET char0Idx == (offset - 1) \div (usCharsetLen + 1)
             rem == (offset - 1) % (usCharsetLen + 1)
         IN  IF char0Idx >= usCharsetLen THEN <<"!">>
             ELSE IF rem = 0 THEN <<usCharset[char0Idx + 1]>>
             ELSE <<usCharset[char0Idx + 1], usCharset[rem]>>

\* Lines 563-614.
USIcaoToN(icaoUpper) ==
    LET idx  == ParseHex(Tail(icaoUpper)) - 1
        dig1 == (idx \div usBucket1Size) + 1
        rem1 == idx % usBucket1Size
        r1   == rem1 - usSuffixSize
        dig2 == r1 \div usBucket2Size
        rem2 == r1 % usBucket2Size
        r2   == rem2 - usSuffixSize
        dig3 == r2 \div usBucket3Size
        rem3 == r2 % usBucket3Size
        r3   == rem3 - usSuffixSize
        dig4 == r3 \div usBucket4Size
        rem4 == r3 % usBucket4Size
        out1 == <<"N">> \o Itoa(dig1)
        out2 == out1 \o Itoa(dig2)
        out3 == out2 \o Itoa(dig3)
        out4 == out3 \o Itoa(dig4)
    IN  IF idx < 0 \/ idx > 915398 THEN Fail
        ELSE IF rem1 < usSuffixSize THEN Ok(out1 \o getSuffixUS(rem1))
        ELSE IF rem2 < usSuffixSize THEN Ok(out2 \o getSuffixUS(rem2))
        ELSE IF rem3 < usSuffixSize THEN Ok(out3 \o getSuffixUS(rem3))
        ELSE IF rem4 = 0 THEN Ok(out4)
        ELSE IF rem4 - 1 >= usAllCharsLen THEN Fail
        ELSE Ok(out4 \o <<usAllChars[rem4]>>)

\* Lines 617-656.
CAIcaoToN(icaoUpper) ==
    LET d == ParseHex(Tail(icaoUpper))
        first == d >= 1 /\ d <= caMax3LetterVal
        second == d >= caMax3LetterVal + 1 /\ d <= caMax3LetterVal * 2
        prefix == IF first THEN <<"C", "-", "F">> ELSE <<"C", "-", "G">>
        dEff == IF first THEN d - 1 ELSE d - 1 - caMax3LetterVal
        l1Idx == dEff % caAlphabetLen
        l2Idx == (dEff \div caAlphabetLen) % caAlphabetLen
        l3Idx == ((dEff \div caAlphabetLen) \div caAlphabetLen) % caAlphabetLen
    IN  IF ~first /\ ~second THEN Fail
        ELSE Ok(prefix \o <<caAlphabet[l3Idx + 1], caAlphabet[l2Idx + 1],
                             caAlphabet[l1Idx + 1]>>)

\* Lines 659-684.  The addresses of the model are in upper case.
IcaoToTailNumber(icao) ==
    IF Len(icao) # 6 THEN Fail
    ELSE IF \E i \in 2..6 : \A j \in 1..Len(HexDigits) : icao[i] # HexDigits[j]
    THEN Fail
    ELSE IF icao[1] = "A" THEN USIcaoToN(icao)
    ELSE IF icao[1] = "C" THEN CAIcaoToN(icao)
    ELSE Fail

\* The five hex digits of n.
ToHex5(n) ==
    [i \in 1..5 |-> HexDigits[((n \div (16 ^ (5 - i))) % 16) + 1]]

\* US addresses: the whole bucket of N1, the start of N2, the end of N9 and
\* both ends of the valid range.  Canadian addresses: the whole C-F and C-G
\* ranges and both ends.
USValues == (0..(usBucket1Size + 700)) \cup (915000..915401)
CAValues == 0..(2 * caMax3LetterVal + 2)

\* The inverse conversion, by the same packing read backwards.
IsDigit(c) == \E i \in 1..Len(digitset) : digitset[i] = c
IsUSLetter(c) == \E i \in 1..Len(usCharset) : usCharset[i] = c
IsCALetter(c) == \E i \in 1..Len(caAlphabet) : caAlphabet[i] = c

SuffixOffset(suffix) ==
    IF suffix = <<>> THEN 0
    ELSE 1 + IndexOf(suffix[1], usCharset) * (usCharsetLen + 1)
           + (IF Len(suffix) = 1 THEN 0 ELSE 1 + IndexOf(suffix[2], usCharset))

USBucketSize(level) ==
    IF level = 2 THEN usBucket2Size
    ELSE IF level = 3 THEN usBucket3Size ELSE usBucket4Size

RECURSIVE USOffset(_, _)
\* The offset, within the bucket of its first `level` digits, of the N-number
\* that continues with rest.
USOffset(rest, level) ==
    IF level = 4
    THEN IF rest = <<>> THEN 0 ELSE 1 + IndexOf(rest[1], usAllChars)
    ELSE IF rest = <<>> \/ ~IsDigit(rest[1]) THEN SuffixOffset(rest)
    ELSE usSuffixSize + IndexOf(rest[1], digitset) * USBucketSize(level + 1)
             + USOffset(Tail(rest), level + 1)

TailToIcao(t) ==
    IF t[1] = "N"
    THEN <<"A">> \o ToHex5(1 + (IndexOf(t[2], digitset) - 1) * usBucket1Size
                              + USOffset(SubSeq(t, 3, Len(t)), 1))
    ELSE <<"C">> \o ToHex5(1 + (IF t[3] = "G" THEN caMax3LetterVal ELSE 0)
                              + IndexOf(t[4], caAlphabet) * caAlphabetLen * caAlphabetLen
                              + IndexOf(t[5], caAlphabet) * caAlphabetLen
                              + IndexOf(t[6], caAlphabet))

TNIdle == tail = [pc |-> "idle"]

TNInit ==
    \E icao \in {<<"A">> \o ToHex5(n) : n \in USValues}
                 \cup {<<"C">> \o ToHex5(n) : n \in CAValues}
                 \cup {<<"4">> \o ToHex5(1), <<"A", "0", "0", "0", "0", "G">>,
                       <<"A", "1">>} :
        tail = [pc |-> "call", icao |-> icao, result |-> Fail]

Convert ==
    /\ tail.pc = "call"
    /\ tail' = [tail EXCEPT !.pc = "done", !.result = IcaoToTailNumber(tail.icao)]
    /\ UNCHANGED exceptTN

TNNext == Convert

\* ======================================================= weather client
MaxMaxRetries == 3

WeatherTypes == {"metar", "taf", "notams"}

WXIdle == fetch = [pc |-> "idle"]

\* Lines 50-54: a call with the configured MaxRetries, which no code of the
\* client validates.
WXInit ==
    fetch \in [pc : {"loop"}, weatherType : WeatherTypes,
               maxRetries : -1..MaxMaxRetries, attempt : {0}, slept : {FALSE},
               requests : {0}, waits : {<<>>}, lastErr : {"nil"},
               data : {"nil"}, err : {"nil"}]

\* The loop is about to make the request of the current attempt.
AtRequest ==
    /\ fetch.pc = "loop" /\ fetch.attempt <= fetch.maxRetries
    /\ fetch.attempt = 0 \/ fetch.slept

\* Lines 55-64: the backoff before a retry.
Backoff ==
    /\ fetch.pc = "loop" /\ fetch.attempt <= fetch.maxRetries
    /\ fetch.attempt > 0 /\ ~fetch.slept
    /\ fetch' = [fetch EXCEPT !.slept = TRUE,
                   !.waits = Append(@, 500 * 2 ^ (fetch.attempt - 1))]
    /\ UNCHANGED exceptWX

\* An attempt that ends in `continue`, leaving lastErr.
Failed(lastErr) ==
    [fetch EXCEPT !.requests = @ + 1, !.lastErr = lastErr,
                  !.attempt = @ + 1, !.slept = FALSE]

\* Lines 67-77: httpClient.Get returns an error.
GetFails ==
    /\ AtRequest
    /\ fetch' = Failed("request")
    /\ UNCHANGED exceptWX

\* Lines 83-92: a status other than 200.
GetNotOK ==
    /\ AtRequest
    /\ fetch' = Failed("status")
    /\ UNCHANGED exceptWX

\* Lines 95-104: the body is not JSON.
DecodeFails ==
    /\ AtRequest
    /\ fetch' = Failed("decode")
    /\ UNCHANGED exceptWX

\* Lines 95 and 107-113: status 200 and a body that decodes.  The JSON
\* document null decodes without error into the nil interface value.
GetSucceeds ==
    /\ AtRequest
    /\ \E decoded \in {"value", "nil"} :
           fetch' = [fetch EXCEPT !.requests = @ + 1, !.pc = "done",
                                  !.data = decoded, !.err = "nil"]
    /\ UNCHANGED exceptWX

\* Lines 116-122: the loop is over.
AllFailed ==
    /\ fetch.pc = "loop" /\ fetch.attempt > fetch.maxRetries
    /\ fetch' = [fetch EXCEPT !.pc = "done", !.data = "nil",
                               !.err = fetch.lastErr]
    /\ UNCHANGED exceptWX

WXNext ==
    \/ Backoff \/ GetFails \/ GetNotOK \/ DecodeFails \/ GetSucceeds
    \/ AllFailed

\* ============================================================ WAVReader
\* len(wr.header).
headerLen == 44

\* The underlying reader holds the PCM bytes 1..MaxPCM.
MaxPCM == 4

\* The header bytes, told apart from the PCM bytes by their sign.
header == [i \in 1..headerLen |-> 0 - i]

PCM(from, count) == [i \in 1..count |-> from + i]

\* Buffer lengths a caller passes: empty, shorter than the header, exactly
\* the header, and longer.
BufferLens == {0, 1, headerLen - 1, headerLen, headerLen + 1, headerLen + 2}

WVInit ==
    wav = [headerSent |-> FALSE, consumed |-> 0, out |-> <<>>,
           len |-> 0, n |-> 0, err |-> "nil"]

\* A header branch that leaves headerSent unset when the buffer holds the
\* header and nothing more.
ReadHeaderOnlyWithRoom(w, len, m, err) ==
    IF len < headerLen
    THEN [w EXCEPT !.len = len, !.n = 0, !.err = "ErrShortBuffer"]
    ELSE IF len > headerLen
    THEN [w EXCEPT !.headerSent = TRUE, !.len = len,
                   !.out = @ \o header \o PCM(w.consumed, m),
                   !.consumed = @ + m, !.n = headerLen + m, !.err = err]
    ELSE [w EXCEPT !.len = len, !.out = @ \o header,
                   !.n = headerLen, !.err = "nil"]

\* Lines 229-247: the first Read that has room for the header.  m and err
\* are what the underlying reader returns for p[headerLen:].
ReadHeader(w, len, m, err) ==
    IF len < headerLen
    THEN [w EXCEPT !.len = len, !.n = 0, !.err = "ErrShortBuffer"]
    ELSE IF len > headerLen
    THEN [w EXCEPT !.headerSent = TRUE, !.len = len,
                   !.out = @ \o header \o PCM(w.consumed, m),
                   !.consumed = @ + m, !.n = headerLen + m, !.err = err]
    ELSE [w EXCEPT !.headerSent = TRUE, !.len = len, !.out = @ \o header,
                   !.n = headerLen, !.err = "nil"]

\* What the underlying reader may return for a buffer of length len: any
\* count up to len and to what it still holds, with or without an error.
Underlying(w, len) ==
    {<<m, err>> \in (0..Min(len, MaxPCM - w.consumed)) \X {"nil", "EOF"} :
        err = "nil" => (m > 0 \/ len = 0 \/ w.consumed < MaxPCM)}

\* Lines 227-247.
WAVReadFirst ==
    /\ ~wav.headerSent
    /\ \E len \in BufferLens :
         \E r \in Underlying(wav, IF len > headerLen THEN len - headerLen ELSE 0) :
           wav' = ReadHeader(wav, len, r[1], r[2])
    /\ UNCHANGED exceptWV

\* Lines 250-251.
WAVReadRest ==
    /\ wav.headerSent
    /\ \E len \in BufferLens : \E r \in Underlying(wav, len) :
           wav' = [wav EXCEPT !.len = len, !.out = @ \o PCM(wav.consumed, r[1]),
                              !.consumed = @ + r[1], !.n = r[1], !.err = r[2]]
    /\ UNCHANGED exceptWV

WVNext == WAVReadFirst \/ WAVReadRest

\* =================================================== context aggregator
\* The tracker returns at most MaxTracked aircraft.
MaxTracked == 2

\* An aircraft as getAircraftData reads it.  positioned: ADSB is not nil and
\* Lat and Lon are not 0; near: the distance to the airport is at most
\* AirportRangeNM.
TrackedAircraft ==
    {ac \in [Status : {"active", "stale", "signal_lost"}, positioned : BOOLEAN,
              near : BOOLEAN, OnGround : BOOLEAN] :
        ac.near => ac.positioned}

RECURSIVE SelectIndexes(_, _, _)
\* The indexes from..Len(list) that are in keep, in order: the append loops
\* of lines 126-130 and 148-158.
SelectIndexes(list, from, keep) ==
    IF from > Len(list) THEN <<>>
    ELSE (IF from \in keep THEN <<from>> ELSE <<>>)
             \o SelectIndexes(list, from + 1, keep)

\* Lines 115-171.  hasCoordinates: len(airport.Coordinates) >= 2.
getAircraftData(allAircraft, hasCoordinates, maxAircraft) ==
    LET active == {i \in 1..Len(allAircraft) : allAircraft[i].Status = "active"}
        inRange == {i \in active :
                       /\ allAircraft[i].positioned
                       /\ allAircraft[i].near \/ ~allAircraft[i].OnGround}
        aircraft == IF hasCoordinates
                    THEN SelectIndexes(allAircraft, 1, inRange)
                    ELSE SelectIndexes(allAircraft, 1, active)
    IN  IF Len(aircraft) > maxAircraft THEN SubSeq(aircraft, 1, maxAircraft)
        ELSE aircraft

\* Line 151: the records whose Distance field the loop of lines 145-155
\* assigns, as indexes into the tracker's list.
distanceWritten(allAircraft, hasCoordinates) ==
    IF hasCoordinates
    THEN {i \in 1..Len(allAircraft) :
             /\ allAircraft[i].Status = "active"
             /\ allAircraft[i].positioned
             /\ allAircraft[i].near \/ ~allAircraft[i].OnGround}
    ELSE {}

AGIdle == agg = [pc |-> "idle"]

AGInit ==
    \E n \in 0..MaxTracked :
        agg \in [pc : {"call"}, allAircraft : [1..n -> TrackedAircraft],
                 hasCoordinates : BOOLEAN, maxAircraft : 0..MaxTracked,
                 result : {<<>>}, written : {{}}]

GetAircraftData ==
    /\ agg.pc = "call"
    /\ agg' = [agg EXCEPT !.pc = "done",
                          !.result = getAircraftData(agg.allAircraft,
                                                     agg.hasCoordinates,
                                                     agg.maxAircraft),
                          !.written = distanceWritten(agg.allAircraft,
                                                      agg.hasCoordinates)]
    /\ UNCHANGED exceptAG

AGNext == GetAircraftData

\* ====================================================== WebSocketClient
\* At most MaxListeners callbacks are registered at a time.
MaxListeners == 2

\* The keys of this.listeners (lines 12-26).
ListenerTypes ==
    {"transcription", "transcription_update", "aircraft", "aircraft_added",
     "aircraft_update", "aircraft_removed", "aircraft_bulk_response",
     "status_update", "phase_change", "clearance_issued", "open", "close",
     "error"}

\* The message types with a branch in the message handler (lines 88-131).
HandledTypes ==
    {"aircraft_added", "aircraft_update", "aircraft_removed",
     "aircraft_bulk_response", "transcription", "transcription_update",
     "aircraft", "status_update", "phase_change"}

\* The types of the messages the server sends, and one it does not.
MessageTypes == (ListenerTypes \ {"open", "close", "error"}) \cup {"pong"}

Callbacks == {"f", "g"}
MessageData == {"d1", "d2"}

RECURSIVE Registered(_)
\* The number of registered callbacks over the listener types in S.
Registered(S) ==
    IF S = {} THEN 0
    ELSE LET t == CHOOSE x \in S : TRUE
         IN  Len(listeners[t]) + Registered(S \ {t})

\* Lines 217-229: every callback of the type, in order, each in its own
\* try block.
NotifyListeners(type, data) ==
    IF type \in ListenerTypes
    THEN [i \in 1..Len(listeners[type]) |-> <<listeners[type][i], data>>]
    ELSE <<>>

WSInit ==
    /\ listeners = [t \in ListenerTypes |-> <<>>]
    /\ last = "none"
    /\ calls = <<>>

\* Lines 174-178; type is a key of this.listeners or not.
AddEventListener(type, callback) ==
    /\ Registered(ListenerTypes) < MaxListeners
    /\ listeners' = IF type \in ListenerTypes
                    THEN [listeners EXCEPT ![type] = Append(@, callback)]
                    ELSE listeners
    /\ UNCHANGED <<last, calls, exceptWS>>

\* Lines 181-185.
RemoveEventListener(type, callback) ==
    /\ type \in ListenerTypes
    /\ listeners' = [listeners EXCEPT ![type] =
                        SelectSeq(@, LAMBDA cb : cb # callback)]
    /\ UNCHANGED <<last, calls, exceptWS>>

\* Lines 82-136: the deferred handler of one well-formed message.
OnMessage(type, data) ==
    /\ last' = type
    /\ calls' = IF type \in HandledTypes THEN NotifyListeners(type, data)
                ELSE <<>>
    /\ UNCHANGED <<listeners, exceptWS>>

WSNext ==
    \/ \E type \in ListenerTypes \cup {"pong"}, callback \in Callbacks :
           AddEventListener(type, callback)
    \/ \E type \in ListenerTypes, callback \in Callbacks :
           RemoveEventListener(type, callback)
    \/ \E type \in MessageTypes, data \in MessageData : OnMessage(type, data)

\* ======================================================= batch assembly
\* Rows are created at times 1..MaxTimestamp.
MaxTimestamp == 4

\* The rows of a fetch of n rows whose ids start after base, with any
\* creation times: the store's order is not by time.
FetchedRows(base, n) ==
    {[i \in 1..n |-> [ID |-> base + i, CreatedAt |-> ts[i]]] :
        ts \in [1..n -> 1..MaxTimestamp]}

\* Lines 228-251: one batch entry per context row, then one per new row.
BatchEntries(contextRecords, records) ==
    [i \in 1..Len(contextRecords) |->
        [ID |-> contextRecords[i].ID, Timestamp |-> contextRecords[i].CreatedAt]]
    \o [i \in 1..Len(records) |->
        [ID |-> records[i].ID, Timestamp |-> records[i].CreatedAt]]

\* A batch left in the order it was assembled.
unsortedBatch(batch) == {batch}

\* Lines 491-496: sort.Slice with less = Timestamp.Before leaves any
\* arrangement of the batch in which no entry is before an earlier one;
\* entries of equal time in any order (the sort is not stable).
sortBatchByTimestamp(batch) ==
    {q \in Orderings(SeqToSet(batch)) :
        \A i, j \in 1..Len(q) : i < j => ~(q[j].Timestamp < q[i].Timestamp)}

SBIdle == submit = [pc |-> "idle"]

\* Lines 186-222: at least one new row, at most BatchSize, and at most
\* ContextTranscriptions context rows.
SBInit ==
    \E c \in 0..ContextTranscriptions, n \in 1..BatchSize :
        submit \in [pc : {"fetched"}, contextRecords : FetchedRows(0, c),
                    records : FetchedRows(ContextTranscriptions, n),
                    batch : {<<>>}]

\* Lines 224-259.
AssembleBatch ==
    /\ submit.pc = "fetched"
    /\ \E sorted \in sortBatchByTimestamp(BatchEntries(submit.contextRecords,
                                                       submit.records)) :
           submit' = [submit EXCEPT !.pc = "marshalled", !.batch = sorted]
    /\ UNCHANGED exceptSB

SBNext == AssembleBatch

\* ====================================================== createWAVHeader
\* A uint32 is kept as two 16-bit halves, so that 32-bit wrap-around is
\* computed and not assumed away.
U32(v) == [hi |-> (v \div 65536) % 65536, lo |-> v % 65536]

\* x + n in uint32 arithmetic for a small n, with the carry out of bit 31.
Add32(x, n) ==
    LET lo == x.lo + n
        hi == x.hi + (lo \div 65536)
    IN  [hi |-> hi % 65536, lo |-> lo % 65536, carry |-> hi \div 65536]

\* binary.LittleEndian.PutUint32 and PutUint16.
PutUint32(x) == <<x.lo % 256, x.lo \div 256, x.hi % 256, x.hi \div 256>>

PutUint16(v) == <<v % 256, (v \div 256) % 256>>

\* binary.LittleEndian.Uint32 of the four bytes of b that start at offset.
Uint32At(b, offset) ==
    [hi |-> b[offset + 3] + 256 * b[offset + 4],
     lo |-> b[offset + 1] + 256 * b[offset + 2]]

\* Line 180: uint32(0xFFFFFFFF - 36).
dataSize == [hi |-> 65535, lo |-> 65535 - 36]

MaxUint32 == [hi |-> 65535, lo |-> 65535]

\* Line 185: 36 + dataSize.
headerChunkSize == Add32(dataSize, 36)

SampleRates == {8000, 11025, 16000, 22050, 24000, 32000, 44100, 48000, 96000, 192000}

ChannelCounts == 1..6

\* Lines 171-224; the chunk ids are their ASCII codes.
createWAVHeader(sampleRate, channels) ==
    <<82, 73, 70, 70>> \o PutUint32([hi |-> headerChunkSize.hi, lo |-> headerChunkSize.lo])
    \o <<87, 65, 86, 69>>
    \o <<102, 109, 116, 32>> \o PutUint32(U32(16)) \o PutUint16(1)
    \o PutUint16(channels % 65536) \o PutUint32(U32(sampleRate))
    \o PutUint32(U32(sampleRate * channels * 2))
    \o PutUint16((channels * 2) % 65536) \o PutUint16(16)
    \o <<100, 97, 116, 97>> \o PutUint32(dataSize)

WHIdle == hdr = [pc |-> "idle"]

WHInit ==
    \E sampleRate \in SampleRates, channels \in ChannelCounts :
        hdr = [pc |-> "call", sampleRate |-> sampleRate, channels |-> channels]

CreateWAVHeader ==
    /\ hdr.pc = "call"
    /\ hdr' = [hdr EXCEPT !.pc = "done",
                          !.sampleRate = hdr.sampleRate,
                          !.channels = hdr.channels] @@
              [bytes |-> createWAVHeader(hdr.sampleRate, hdr.channels)]
    /\ UNCHANGED exceptWH

WHNext == CreateWAVHeader

\* ================================================== Client.StreamAudio
\* Line 78.
maxRetries == 3

\* Line 79, in seconds.
initialRetryDelay == 1

\* Status codes other than 200 that the source may answer with.
FailureStatuses == {404, 500, 503}

StatusOK == 200

SAIdle == stream = [pc |-> "idle"]

\* The call starts at line 62 with a URL that parses or not, and a context
\* that may already be cancelled.
SAInit ==
    \E urlOK \in BOOLEAN, done \in BOOLEAN :
        stream = [pc |-> "request", urlOK |-> urlOK, ctxDone |-> done,
                  attempt |-> 0, retryDelay |-> initialRetryDelay,
                  log |-> <<>>, result |-> "none", err |-> "nil"]

\* What c.httpClient.Do(req) may return: a transport error, or a response
\* with some status.  With a cancelled context Do returns the context's
\* error.
DoOutcomes(cancelled) ==
    {[k |-> "do", err |-> TRUE, status |-> 0]} \cup
    (IF cancelled THEN {}
     ELSE {[k |-> "do", err |-> FALSE, status |-> c] :
              c \in FailureStatuses \cup {StatusOK}})

\* Line 85.
Success(o) == ~o.err /\ o.status = StatusOK

\* A select that takes the timer although the context is cancelled.
selectTimerFirst(cancelled) == {"timer"}

\* Lines 111-117: the cases the select can take.  time.After(retryDelay)
\* has just been armed with at least a second, so it is ready only after
\* the goroutine has blocked; a context cancelled before that wakes the
\* goroutine with the ctx.Done() case.
selectBackoff(cancelled) == IF cancelled THEN {"ctx"} ELSE {"timer"}

\* Lines 62-65.
NewRequest ==
    /\ stream.pc = "request"
    /\ stream' = IF stream.urlOK
                 THEN [stream EXCEPT !.pc = "do"]
                 ELSE [stream EXCEPT !.pc = "done", !.result = "nil",
                                     !.err = "failed to create request"]
    /\ UNCHANGED exceptSA

\* Lines 83-100: one iteration of the loop up to the select.
Attempt ==
    /\ stream.pc = "do"
    /\ stream.attempt < maxRetries
    /\ \E o \in DoOutcomes(stream.ctxDone) :
         LET logged == Append(stream.log, o) IN
         stream' =
           IF Success(o)
           THEN [stream EXCEPT !.pc = "done", !.log = logged,
                               !.result = "stream", !.err = "nil"]
           ELSE IF stream.attempt = maxRetries - 1
           THEN [stream EXCEPT !.pc = "done", !.log = logged,
                               !.result = "nil",
                               !.err = IF o.err THEN "failed to execute request"
                                        ELSE "unexpected status code"]
           ELSE [stream EXCEPT !.pc = "select", !.log = logged]
    /\ UNCHANGED exceptSA

\* Lines 111-117 and the loop's attempt++.
Select ==
    /\ stream.pc = "select"
    /\ \E case \in selectBackoff(stream.ctxDone) :
         LET w == [k |-> "wait", delay |-> stream.retryDelay,
                   ctxDone |-> stream.ctxDone]
         IN  stream' =
               IF case = "ctx"
               THEN [stream EXCEPT !.pc = "done", !.log = Append(@, w),
                                   !.result = "nil", !.err = "ctx.Err()"]
               ELSE [stream EXCEPT !.pc = "do", !.log = Append(@, w),
                                   !.retryDelay = @ * 2,
                                   !.attempt = @ + 1]
    /\ UNCHANGED exceptSA

\* The caller cancels the context, at any moment of the call.
CancelStreamCtx ==
    /\ stream.pc \in {"request", "do", "select"}
    /\ ~stream.ctxDone
    /\ stream' = [stream EXCEPT !.ctxDone = TRUE]
    /\ UNCHANGED exceptSA

SANext == NewRequest \/ Attempt \/ Select \/ CancelStreamCtx

\* ======================================== WebSocketClient: connection
\* Line 10.
maxReconnectAttempts == 10

\* The application calls connect() at most MaxConnectCalls times.
MaxConnectCalls == 2

\* The server sends at most MaxMessages messages.
MaxMessages == 3

\* The messages of one aircraft hex.
HexMessageTypes == {"aircraft_added", "aircraft_update", "aircraft_removed"}

WCInit ==
    /\ sock = [connection |-> "null",
               stale |-> [aborted |-> 0, closing |-> 0, errored |-> 0],
               isReconnecting |-> FALSE, autoReconnect |-> FALSE,
               reconnectAttempts |-> 0, reconnectTimeout |-> "null",
               olderTimers |-> 0, connectCalls |-> 0,
               sinceOpen |-> 0, sinceReset |-> 0]
    /\ inbox = [timers |-> <<>>, received |-> 0, notified |-> <<>>]

\* WebSocket.close(): a socket that is still connecting fails (an error
\* event, then a close event); an open one closes (a close event); on a
\* socket that has closed it does nothing.
closeSocket(state) ==
    IF state = "connecting" THEN "aborted"
    ELSE IF state = "open" THEN "closing"
    ELSE state

\* The sockets with events to come, once the client lets go of a socket in
\* the given state.
Dropped(stale, state) ==
    IF state \in {"aborted", "closing", "errored"}
    THEN [stale EXCEPT ![state] = @ + 1]
    ELSE stale

\* A counter that stops at one above the limit it is compared with.
Bump(n) == Min(n + 1, maxReconnectAttempts + 1)

\* Lines 30-45.
connect(c) ==
    IF c.isReconnecting THEN c
    ELSE [c EXCEPT !.stale = Dropped(@, closeSocket(c.connection)),
                   !.isReconnecting = TRUE,
                   !.connection = "connecting"]

\* Lines 48-53.
onOpen(c) ==
    [c EXCEPT !.isReconnecting = FALSE, !.reconnectAttempts = 0,
              !.sinceOpen = 0, !.sinceReset = 0]

\* A close handler that schedules a reconnect whenever auto-reconnect is on.
onCloseAlways(c) ==
    IF c.autoReconnect
    THEN [c EXCEPT !.isReconnecting = FALSE,
                   !.reconnectAttempts = Bump(@),
                   !.olderTimers = IF c.reconnectTimeout = "pending"
                                   THEN @ + 1 ELSE @,
                   !.reconnectTimeout = "pending",
                   !.sinceOpen = Bump(@), !.sinceReset = Bump(@)]
    ELSE [c EXCEPT !.isReconnecting = FALSE]

\* Lines 56-72.
onClose(c) ==
    IF c.autoReconnect /\ c.reconnectAttempts < maxReconnectAttempts
    THEN [c EXCEPT !.isReconnecting = FALSE,
                   !.reconnectAttempts = @ + 1,
                   !.olderTimers = IF c.reconnectTimeout = "pending"
                                   THEN @ + 1 ELSE @,
                   !.reconnectTimeout = "pending",
                   !.sinceOpen = Bump(@), !.sinceReset = Bump(@)]
    ELSE [c EXCEPT !.isReconnecting = FALSE]

\* Lines 75-79.
onError(c) == [c EXCEPT !.isReconnecting = FALSE]

\* Lines 141-155.
disconnect(c) ==
    [c EXCEPT !.autoReconnect = FALSE,
              !.reconnectTimeout = "null",
              !.stale = Dropped(@, closeSocket(c.connection)),
              !.connection = "null",
              !.isReconnecting = FALSE]

\* The application calls connect().
UserConnect ==
    /\ sock.connectCalls < MaxConnectCalls
    /\ sock' = [connect(sock) EXCEPT !.connectCalls = @ + 1]
    /\ UNCHANGED <<inbox, exceptWC>>

\* Lines 66-68: a reconnect timer fires, the one this.reconnectTimeout names
\* or an older one.
ReconnectTimerFires ==
    /\ \/ /\ sock.reconnectTimeout = "pending"
          /\ sock' = connect([sock EXCEPT !.reconnectTimeout = "fired"])
       \/ /\ sock.olderTimers > 0
          /\ sock' = connect([sock EXCEPT !.olderTimers = @ - 1])
    /\ UNCHANGED <<inbox, exceptWC>>

UserDisconnect ==
    /\ sock' = disconnect(sock)
    /\ UNCHANGED <<inbox, exceptWC>>

\* Lines 158-170.
EnableAutoReconnect ==
    /\ sock' = [sock EXCEPT !.autoReconnect = TRUE]
    /\ UNCHANGED <<inbox, exceptWC>>

DisableAutoReconnect ==
    /\ sock' = [sock EXCEPT !.autoReconnect = FALSE]
    /\ UNCHANGED <<inbox, exceptWC>>

ResetReconnectAttempts ==
    /\ sock' = [sock EXCEPT !.reconnectAttempts = 0, !.sinceReset = 0]
    /\ UNCHANGED <<inbox, exceptWC>>

\* The open event of the socket this.connection refers to.
OpenEvent ==
    /\ sock.connection = "connecting"
    /\ sock' = onOpen([sock EXCEPT !.connection = "open"])
    /\ UNCHANGED <<inbox, exceptWC>>

\* The error event of the current socket: the connection failed.
ErrorEvent ==
    /\ sock.connection \in {"connecting", "open"}
    /\ sock' = onError([sock EXCEPT !.connection = "errored"])
    /\ UNCHANGED <<inbox, exceptWC>>

\* The close event of the current socket: after its error event, or when the
\* server closes an open connection.
CloseEvent ==
    /\ sock.connection \in {"open", "errored"}
    /\ sock' = onClose([sock EXCEPT !.connection = "closed"])
    /\ UNCHANGED <<inbox, exceptWC>>

\* The error event of a socket that connect() or disconnect() closed while it
\* was connecting.
StaleErrorEvent ==
    /\ sock.stale.aborted > 0
    /\ sock' = onError([sock EXCEPT !.stale.aborted = @ - 1,
                                    !.stale.errored = @ + 1])
    /\ UNCHANGED <<inbox, exceptWC>>

\* The close event of a socket the client no longer refers to.
StaleCloseEvent ==
    /\ \E k \in {"closing", "errored"} :
         /\ sock.stale[k] > 0
         /\ sock' = onClose([sock EXCEPT !.stale[k] = @ - 1])
    /\ UNCHANGED <<inbox, exceptWC>>

\* Timers that run in any order.
anyTimer(timers) == 1..Len(timers)

\* The deferred handlers all have delay 0, so the event loop runs them in
\* the order in which setTimeout was called.
nextTimer(timers) == {1}

\* Lines 82-84, 136: a message arrives on the open socket; its handler is
\* deferred with setTimeout(..., 0).  seq is the message's place in the
\* order the server sent it.
Receive(type) ==
    /\ sock.connection = "open"
    /\ inbox.received < MaxMessages
    /\ inbox' = [inbox EXCEPT
                   !.received = @ + 1,
                   !.timers = Append(@, [type |-> type, seq |-> inbox.received + 1])]
    /\ UNCHANGED <<sock, exceptWC>>

\* Lines 85-135: a deferred handler runs.
RunMessageTimer ==
    /\ \E i \in nextTimer(inbox.timers) :
         /\ i <= Len(inbox.timers)
         /\ LET m == inbox.timers[i]
                notify == IF m.type \in HandledTypes
                          THEN NotifyListeners(m.type, m.seq) ELSE <<>>
            IN  /\ last' = m.type
                /\ calls' = notify
                /\ inbox' = [inbox EXCEPT
                               !.timers = SubSeq(@, 1, i - 1)
                                            \o SubSeq(@, i + 1, Len(@)),
                               !.notified = @ \o notify]
    /\ UNCHANGED <<sock, listeners, exceptWSWC>>

\* The connection without its messages.
WCNext ==
    \/ UserConnect \/ ReconnectTimerFires \/ UserDisconnect
    \/ EnableAutoReconnect \/ DisableAutoReconnect \/ ResetReconnectAttempts
    \/ OpenEvent \/ ErrorEvent \/ CloseEvent
    \/ StaleErrorEvent \/ StaleCloseEvent

\* The messages of one hex over a connection, with listeners that come and
\* go.
MessageNext ==
    \/ UserConnect \/ OpenEvent \/ CloseEvent
    \/ \E type \in HexMessageTypes : Receive(type)
    \/ RunMessageTimer
    \/ \E type \in HexMessageTypes, callback \in Callbacks :
           AddEventListener(type, callback)
    \/ \E type \in HexMessageTypes, callback \in Callbacks :
           RemoveEventListener(type, callback)

\* ============================================= post-processing loop
\* Start is called at most MaxLoops times.
MaxLoops == 2

NoLoop == [pc |-> "none", tickReady |-> FALSE, aborted |-> FALSE]

\* config.Enabled is fixed at construction; the model draws it when Start
\* first reads it.
PLInit ==
    /\ proc = [enabled |-> "unread", ctxDone |-> FALSE, wg |-> 0,
               stop |-> "idle", stopped |-> FALSE]
    /\ loops = [i \in 1..MaxLoops |-> NoLoop]

\* A Stop that does not wait for the loop.
noWait(counter) == TRUE

\* Line 169: p.wg.Wait() returns when the counter is zero.
wgWait(counter) == counter = 0

\* The language-model call returns with an error once its context is
\* cancelled.
abortedByContext(cancelled) == cancelled

\* Lines 134-145: Start launches the loop unless post-processing is
\* disabled.
Start ==
    /\ \E i \in 1..MaxLoops :
         /\ loops[i].pc = "none"
         /\ \A j \in 1..(i - 1) : loops[j].pc # "none"
         /\ \E enabled \in (IF proc.enabled = "unread" THEN {"yes", "no"}
                             ELSE {proc.enabled}) :
              IF enabled = "yes"
              THEN /\ proc' = [proc EXCEPT !.enabled = enabled, !.wg = @ + 1]
                   /\ loops' = [loops EXCEPT ![i].pc = "spawned"]
              ELSE /\ proc' = [proc EXCEPT !.enabled = enabled]
                   /\ loops' = [loops EXCEPT ![i].pc = "disabled"]
    /\ UNCHANGED exceptPL

\* Lines 147-151: the goroutine creates its ticker and reaches the select
\* before the first interval has passed.
FirstSelect(i) ==
    /\ loops[i].pc = "spawned"
    /\ IF proc.ctxDone
       THEN /\ loops' = [loops EXCEPT ![i].pc = "exited"]
            /\ proc' = [proc EXCEPT !.wg = @ - 1]
       ELSE /\ loops' = [loops EXCEPT ![i].pc = "select"]
            /\ UNCHANGED proc
    /\ UNCHANGED exceptPL

\* The ticker puts a tick into its channel (of capacity 1).
TickerFires(i) ==
    /\ loops[i].pc \in {"select", "fetch", "lm", "apply"}
    /\ ~loops[i].tickReady
    /\ loops' = [loops EXCEPT ![i].tickReady = TRUE]
    /\ UNCHANGED <<proc, exceptPL>>

\* Lines 152-154 and 146-148: the select takes ctx.Done().
LoopExit(i) ==
    /\ loops[i].pc = "select"
    /\ proc.ctxDone
    /\ loops' = [loops EXCEPT ![i].pc = "exited"]
    /\ proc' = [proc EXCEPT !.wg = @ - 1]
    /\ UNCHANGED exceptPL

\* Lines 155-156: the select takes the tick; when ctx.Done() is ready too
\* the choice between the two is random.
LoopTick(i) ==
    /\ loops[i].pc = "select"
    /\ loops[i].tickReady
    /\ loops' = [loops EXCEPT ![i].pc = "fetch", ![i].tickReady = FALSE]
    /\ UNCHANGED <<proc, exceptPL>>

\* Lines 187-195 and up to the call of line 432: the batch is fetched; with
\* no unprocessed row, or when the fetch or the template fails,
\* processNextBatch returns.
Fetch(i) ==
    /\ loops[i].pc = "fetch"
    /\ \E next \in {"select", "lm"} :
         loops' = [loops EXCEPT ![i].pc = next]
    /\ UNCHANGED <<proc, exceptPL>>

\* Line 432: the language model answers, or the request fails.
LMReturns(i) ==
    /\ loops[i].pc = "lm"
    /\ loops' = [loops EXCEPT ![i].pc = "apply"]
    /\ UNCHANGED <<proc, exceptPL>>

\* Line 432: the call is made with p.ctx and ends when p.ctx is cancelled.
LMAborted(i) ==
    /\ loops[i].pc = "lm"
    /\ abortedByContext(proc.ctxDone)
    /\ loops' = [loops EXCEPT ![i].pc = "apply", ![i].aborted = TRUE]
    /\ UNCHANGED <<proc, exceptPL>>

\* The rest of processNextBatch: the results, or the failure sentinel, are
\* written to the store.
Apply(i) ==
    /\ loops[i].pc = "apply"
    /\ loops' = [loops EXCEPT ![i].pc = "select"]
    /\ UNCHANGED <<proc, exceptPL>>

\* Lines 166-168.
StopCancel ==
    /\ proc.stop = "idle"
    /\ proc' = [proc EXCEPT !.ctxDone = TRUE, !.stop = "waiting"]
    /\ UNCHANGED <<loops, exceptPL>>

\* Lines 169-170.
StopReturn ==
    /\ proc.stop = "waiting"
    /\ wgWait(proc.wg)
    /\ proc' = [proc EXCEPT !.stop = "idle", !.stopped = TRUE]
    /\ UNCHANGED <<loops, exceptPL>>

\* The context NewPostProcessor was given is cancelled (line 111).
ParentCancel ==
    /\ ~proc.ctxDone
    /\ proc' = [proc EXCEPT !.ctxDone = TRUE]
    /\ UNCHANGED <<loops, exceptPL>>

LoopSteps(i) ==
    \/ FirstSelect(i) \/ LoopExit(i) \/ LoopTick(i)
    \/ Fetch(i) \/ LMReturns(i) \/ LMAborted(i) \/ Apply(i)

PLNext ==
    \/ Start \/ StopCancel \/ StopReturn \/ ParentCancel
    \/ \E i \in 1..MaxLoops : TickerFires(i)
    \/ \E i \in 1..MaxLoops : LoopSteps(i)

\* The goroutines are scheduled, the store's calls return, a cancelled
\* language-model call returns, and a select with ctx.Done() ready time and
\* again takes it in the end (the choice among ready cases is uniformly
\* random).
PLFairness ==
    /\ WF_vars(StopReturn)
    /\ \A i \in 1..MaxLoops :
         /\ WF_vars(FirstSelect(i)) /\ SF_vars(LoopExit(i))
         /\ WF_vars(Fetch(i)) /\ WF_vars(LMAborted(i)) /\ WF_vars(Apply(i))

\* ------------------------------------------------------ specifications
\* Every component whose model is a single call is idle, except component c.
IdleExcept(c) ==
    /\ c = "sensor" \/ (SVIdle /\ FLIdle)
    /\ c = "runway" \/ RWIdle
    /\ c = "tail" \/ TNIdle
    /\ c = "weather" \/ WXIdle
    /\ c = "aggregator" \/ AGIdle
    /\ c = "batch" \/ SBIdle
    /\ c = "wavheader" \/ WHIdle
    /\ c = "stream" \/ SAIdle

Init == MRInit /\ PPInit /\ CDInit /\ WVInit /\ WSInit /\ WCInit /\ PLInit /\ IdleExcept("none")

\* Two listeners on an open MultiReader.
FanoutSpec == Init /\ [][FanoutNext]_vars

\* One listener with the whole API: removal, shutdown, cancellation, timeouts.
LifecycleSpec == Init /\ [][LifecycleNext]_vars

\* The post-processor loop over a database that accepts every write.
PPSpec == Init /\ [][PPNext]_vars

\* The post-processor loop over a database that may refuse any write.
PPFaultSpec == Init /\ [][PPFaultNext]_vars

\* Successive polling cycles hand their snapshot to the change detector.
CDSpec == Init /\ [][CDNext]_vars

\* One ValidateSensorData call on every combination of arguments.
SensorInit ==
    /\ MRInit /\ PPInit /\ CDInit /\ WVInit /\ WSInit /\ WCInit /\ PLInit /\ IdleExcept("sensor")
    /\ \/ SVInit /\ FLIdle
       \/ SVIdle /\ FLInit

SensorSpec == SensorInit /\ [][SVNext]_vars

RunwayInit ==
    MRInit /\ PPInit /\ CDInit /\ WVInit /\ WSInit /\ WCInit /\ PLInit /\ IdleExcept("runway") /\ RWInit

TailInit ==
    MRInit /\ PPInit /\ CDInit /\ WVInit /\ WSInit /\ WCInit /\ PLInit /\ IdleExcept("tail") /\ TNInit

WeatherInit ==
    MRInit /\ PPInit /\ CDInit /\ WVInit /\ WSInit /\ WCInit /\ PLInit /\ IdleExcept("weather") /\ WXInit

\* One fetchWithRetry call for each weather kind and each MaxRetries.
WeatherSpec == WeatherInit /\ [][WXNext]_vars

AggregatorInit ==
    MRInit /\ PPInit /\ CDInit /\ WVInit /\ WSInit /\ WCInit /\ PLInit /\ IdleExcept("aggregator") /\ AGInit

\* One getAircraftData call on every tracker list of the model.
AggregatorSpec == AggregatorInit /\ [][AGNext]_vars

\* Listeners come and go while messages arrive.
WebSocketSpec == Init /\ [][WSNext]_vars

BatchInit ==
    MRInit /\ PPInit /\ CDInit /\ WVInit /\ WSInit /\ WCInit /\ PLInit /\ IdleExcept("batch") /\ SBInit

\* One batch assembly on every fetch of the model.
BatchSpec == BatchInit /\ [][SBNext]_vars

WAVHeaderInit ==
    MRInit /\ PPInit /\ CDInit /\ WVInit /\ WSInit /\ WCInit /\ PLInit /\ IdleExcept("wavheader") /\ WHInit

\* One call of createWAVHeader for every sample rate and channel count.
WAVHeaderSpec == WAVHeaderInit /\ [][WHNext]_vars

StreamInit ==
    MRInit /\ PPInit /\ CDInit /\ WVInit /\ WSInit /\ WCInit /\ PLInit /\ IdleExcept("stream") /\ SAInit

\* One call of StreamAudio against a source that may fail in any way, with
\* a context that may be cancelled at any moment.
StreamSpec == StreamInit /\ [][SANext]_vars

\* The client's connection under every order of API calls and socket events.
ConnectionSpec == Init /\ [][WCNext]_vars

\* Messages arriving on the client's connection.
MessageSpec == Init /\ [][MessageNext]_vars

\* The post-processing loop with Start, Stop and cancellation at any moment.
LoopSpec == Init /\ [][PLNext]_vars /\ PLFairness

\* CreateReader called twice with one id.
SharedIdSpec == Init /\ [][SharedNext]_vars

\* Successive Read calls on one WAVReader.
WAVSpec == Init /\ [][WVNext]_vars

\* One IcaoToTailNumber call on every address of the model.
TailSpec == TailInit /\ [][TNNext]_vars

\* One detector call on every combination of arguments.
RunwaySpec == RunwayInit /\ [][RWNext]_vars

\* The loop's ticker keeps firing.
PPFairSpec == PPSpec /\ WF_vars(Tick)

\* --------------------------------------------------------------- claims

\* C1: every byte a Read returns was written after the reader was created;
\* a reader never receives a byte that was in the buffer (or the buffer's
\* initial contents) when CreateReader ran.
C1_OnlyBytesWrittenAfterCreation ==
    \A h \in Handles :
        LET c == client[h]
            r == readers[HandleId[h]]
        IN  (c.pc \in {"copy", "update"} /\ ~c.orphan /\ r.exists)
                => \A j \in 1..Len(c.got) : c.got[j] > r.born

\* C2: a stalled reader never blocks the writer nor delays another reader:
\* on an open MultiReader a Write of any length can complete in every state,
\* every step of a Read that has data or has been woken can be taken, and a
\* Read that found unread bytes at its cursor returns exactly those bytes,
\* whatever the cursors of the other readers are.
C2_StalledReaderIsolated ==
    /\ ~closed => \A n \in 0..MaxWrite : written + n <= MaxBytes => ENABLED Write(n)
    /\ \A h \in Handles :
        LET c == client[h]
            r == readers[HandleId[h]]
        IN  /\ c.pc = "copy" => ENABLED ReadCopy(h)
            /\ c.pc = "update" => ENABLED ReadUpdate(h)
            /\ (c.pc = "wait" /\ c.chanClosed) => ENABLED ReadWake(h)
            /\ (c.pc = "idle" /\ c.held /\ r.exists /\ r.readIndex # writeIndex)
                    => ENABLED ReadBegin(h, 1)
            /\ (c.pc \in {"copy", "update"} /\ ~c.emptyWake /\ ~c.orphan
                    /\ r.exists /\ r.sync = "ok")
                    => c.got = [j \in 1..c.copied |-> NextUnread(r) + j - 1]

\* C2 witness: one reader stalled until the writer lapped it while the other
\* reader's Read holds bytes written after the buffer wrapped.
C2_Witness ==
    \E h \in Handles, k \in Handles :
        /\ h # k
        /\ readers[HandleId[k]].exists /\ readers[HandleId[k]].sync = "overrun"
        /\ client[k].pc = "idle"
        /\ readers[HandleId[h]].exists /\ readers[HandleId[h]].sync = "ok"
        /\ client[h].pc = "update" /\ ~client[h].emptyWake
        /\ Len(client[h].got) >= 1 /\ client[h].got[1] > BufferSize

\* C3: a reader whose backlog never reaches the buffer capacity receives
\* exactly the bytes written after its creation, in order, none lost and none
\* twice.
C3_ExactStreamWithoutOverrun ==
    \A id \in Ids : readers[id].exists => readers[id].sync # "broken"

\* C4: a Read that found no data and then sees a non-empty Write complete is
\* woken by that Write (its waitChan is closed), without a further Write.
C4_WriteWakesBlockedRead ==
    \A h \in Handles :
        LET c == client[h]
            r == readers[HandleId[h]]
        IN  (c.pc = "wait" /\ ~c.orphan /\ r.exists /\ r.readIndex # writeIndex)
                => c.chanClosed

\* C5: RemoveReader releases every Read blocked on the id and every waiter
\* goroutine parked on the reader's condition variable, and a RemoveReader of
\* an id that is not registered changes nothing.
C5_RemoveReleasesEveryWaiter ==
    [][\A id \in Ids :
          /\ (readers[id].exists /\ ~readers'[id].exists) =>
                /\ ~LeavesWaiter(readers[id])
                /\ \A h \in Handles :
                      (HandleId[h] = id /\ client'[h].pc = "wait") => client'[h].chanClosed
          /\ (~readers[id].exists /\ RemoveReader(id)) => UNCHANGED mrVars]_vars

C8_FetchedRowEventuallyProcessed ==
    \A id \in 1..MaxRows :
        (id \in SeqToSet(tick.fetched)) ~> (id <= Len(rows) /\ rows[id].processed)

\* C9: a tick updates rows and inserts clearances only for ids it fetched as
\* unprocessed.
C9_WritesOnlyFetchedIds ==
    /\ tick.updated \subseteq SeqToSet(tick.fetched)
    /\ tick.cleared \subseteq SeqToSet(tick.fetched)

\* C10: a row is processed if and only if its processed text is non-empty.
C10_ProcessedIffText ==
    \A id \in 1..Len(rows) :
        rows[id].processed <=> rows[id].content_processed # ""

\* C10 witness: of a batch of two the language model returned a cleaned text
\* for one row and an empty content_processed for the other, which stays
\* unprocessed with no processed text.
C10_Witness ==
    /\ tick.outcome = "results"
    /\ \E i \in SeqToSet(tick.fetched), j \in SeqToSet(tick.fetched) :
            /\ rows[i].processed /\ rows[i].content_processed = "clean"
            /\ i \in tick.updated
            /\ ~rows[j].processed /\ rows[j].content_processed = ""

\* C11: the clearance records a tick inserts all come from a result whose
\* speaker type is ATC and whose row the same tick updated successfully; each
\* carries that transcription id and status "issued"; and the
\* clearance_issued broadcasts of the tick are exactly one per inserted
\* record, carrying the id the insert assigned.  Nothing else in the
\* clearances table changes.
C11_ClearanceOnlyForUpdatedATC ==
    [][tick'.phase # tick.phase =>
          LET before == Len(clearances)
              inserted == (before + 1)..Len(clearances')
              issued == SelectSeq(tick'.events,
                                  LAMBDA e : e.type = "clearance_issued")
          IN  /\ Len(clearances') >= before
              /\ SubSeq(clearances', 1, before) = clearances
              /\ \A k \in inserted :
                    /\ clearances'[k].speaker_type = "ATC"
                    /\ clearances'[k].status = "issued"
                    /\ clearances'[k].transcription_id \in tick'.updated
                    /\ clearances'[k].transcription_id \notin tick'.failed
              /\ issued = [k \in 1..(Len(clearances') - before) |->
                               ClearanceIssued(before + k)]]_vars

\* C11 witness: in one tick the update of one ATC result with a clearance
\* was refused and the other ATC result's clearance was inserted and
\* broadcast.
C11_Witness ==
    /\ tick.outcome = "results"
    /\ tick.failed # {}
    /\ tick.cleared # {}
    /\ clearances # <<>>
    /\ \E i \in 1..Len(tick.events) :
            tick.events[i] = ClearanceIssued(Len(clearances))

\* C12: after a tick, every row the tick marked processed has exactly one
\* transcription_update broadcast, carrying the row's processed text and
\* speaker type, and no other row has one.
C12_UpdateBroadcastPerProcessedRow ==
    \A id \in 1..Len(rows) :
        LET sent == SelectSeq(tick.events,
                        LAMBDA e : e.type = "transcription_update" /\ e.id = id)
        IN  IF id \in tick.updated
            THEN sent = <<TranscriptionUpdate(id, rows[id].content_processed,
                                              rows[id].speaker)>>
            ELSE sent = <<>>

\* C13: a batch is applied as one transaction: after a tick either every
\* fetched row has been updated and no write of the tick was refused, or the
\* tick has written no row and no clearance.
C13_BatchIsAllOrNothing ==
    tick.fetched # <<>> =>
        \/ /\ SeqToSet(tick.fetched) \subseteq tick.updated
           /\ tick.failed = {} /\ tick.refused = {}
        \/ tick.updated = {} /\ tick.cleared = {}

\* C14: in every batch submitted to the language model, all rows - the
\* fetched unprocessed rows and the context rows - belong to the frequency
\* whose name heads the payload.
C14_BatchOfOneFrequency ==
    [][(tick'.phase # tick.phase /\ tick'.lmCalled) =>
          LET frequencyID == FrequencyID(rows, tick'.fetched)
              context == GetLastProcessedTranscriptions(rows, frequencyID,
                                                        ContextTranscriptions)
          IN  \A id \in SeqToSet(tick'.fetched) \cup context :
                  rows[id].freq = frequencyID]_vars

C18_UpdatedIffAnyFieldDiffers ==
    [][cdVars' # cdVars =>
          \A hex \in Hexes :
              (previousAircraft[hex].exists /\ previousAircraft'[hex].exists) =>
                  LET of == SelectSeq(changes', LAMBDA e : e.Hex = hex)
                  IN  IF previousAircraft[hex] # previousAircraft'[hex]
                      THEN of = <<AircraftChange("updated", previousAircraft'[hex], hex)>>
                      ELSE of = <<>>]_vars

\* C19: when the previous altitude is greater than
\* impossibleAltDropThresholdFt and the current altitude is 0,
\* ValidateSensorData returns the previous altitude, whatever the speeds and
\* the distance to the station.
C19_ImpossibleAltDropKeepsPrevious ==
    (/\ sensor.pc = "done"
     /\ sensor.currentAlt = 0
     /\ sensor.prevAlt > sensor.config.ImpossibleAltDropThresholdFt)
        => sensor.alt = sensor.prevAlt

\* C19 witness: near the station, with a current TAS, the altitude dropped
\* to 0 from above the threshold and the previous altitude was returned.
C19_Witness ==
    /\ sensor.pc = "done" /\ ~sensor.far
    /\ sensor.currentAlt = 0 /\ sensor.currentTAS # 0
    /\ sensor.prevAlt > sensor.config.ImpossibleAltDropThresholdFt
    /\ sensor.alt = sensor.prevAlt /\ sensor.alt # 0

\* C20: when the current altitude, TAS and GS are all 0 and the previous
\* values are flying values by IsFlying, ValidateSensorData returns the three
\* previous values, at any distance.
C20_TripleDropKeepsPrevious ==
    (/\ sensor.pc = "done"
     /\ sensor.currentAlt = 0 /\ sensor.currentTAS = 0 /\ sensor.currentGS = 0
     /\ IsFlying(sensor.prevTAS, sensor.prevGS, sensor.prevAlt, sensor.config))
        => <<sensor.tas, sensor.gs, sensor.alt>>
               = <<sensor.prevTAS, sensor.prevGS, sensor.prevAlt>>

\* C21: IsFlying(tas, gs, alt) is true exactly when, with speed = tas if tas
\* is non-zero and gs otherwise, alt >= high-altitude override, or speed >=
\* flyingMin and alt >= altMin, or alt >= altMin*multiplier and speed >
\* flyingMin/2, or speed >= highSpeedThreshold; altitude exactly
\* flyingMinAltFt with speed exactly flyingMinTASKts gives true.
C21_IsFlyingExactlyTheFourRules ==
    flying.pc = "done" =>
        LET c == flying.config
            speed == IF flying.tas # 0 THEN flying.tas ELSE flying.gs
            a == flying.altitude >= c.HighAltitudeOverrideFt
            b == speed >= c.FlyingMinTASKts /\ flying.altitude >= c.FlyingMinAltFt
            h == /\ flying.altitude >= c.FlyingMinAltFt * c.HelicopterAltMultiplier
                 /\ speed * 2 > c.FlyingMinTASKts
            d == speed >= c.HighSpeedThresholdKts
        IN  /\ flying.result = (a \/ b \/ h \/ d)
            /\ (flying.altitude = c.FlyingMinAltFt /\ speed = c.FlyingMinTASKts)
                   => flying.result

\* C21 witness: altitude exactly flyingMinAltFt, TAS 0 and GS exactly
\* flyingMinTASKts, below every other threshold, classified as flying.
C21_Witness ==
    /\ flying.pc = "done"
    /\ flying.tas = 0 /\ flying.gs = flying.config.FlyingMinTASKts
    /\ flying.altitude = flying.config.FlyingMinAltFt
    /\ flying.result

\* C22: the approach detector returns a runway exactly when some runway
\* threshold has distance <= approachMaxDistanceNM, heading within
\* approachHeadingToleranceDeg of the runway heading, centerline distance <=
\* approachCenterlineToleranceNM and the altitude is <= 5000 ft; an aircraft
\* above 5000 ft is never reported on approach.
C22_ApproachIffFourConditions ==
    (runway.pc = "done" /\ runway.op = "approach") =>
        /\ runway.result.found <=>
              \E t \in runway.present :
                  /\ getOppositeThreshold(t) \in runway.present
                  /\ runway.distanceNM[t] <= runway.config.ApproachMaxDistanceNM * 10
                  /\ HeadingDiff(runway.heading, runway.runwayHeading[t])
                        <= runway.config.ApproachHeadingToleranceDeg
                  /\ runway.centerline[t] <= runway.config.ApproachCenterlineToleranceNM
                  /\ runway.altitude <= 5000
        /\ runway.altitude > 5000 => ~runway.result.found

\* C23: the departure detector reports a departure whenever some runway
\* threshold with a known opposite threshold has distance <= 1.5 x
\* approachMaxDistanceNM, heading within 2 x approachHeadingToleranceDeg of
\* the runway heading and heading at least 90 degrees from the bearing to
\* the station.
C23_DepartureOverWholeRange ==
    (/\ runway.pc = "done" /\ runway.op = "departure"
     /\ \E t \in runway.present :
            /\ getOppositeThreshold(t) \in runway.present
            /\ 2 * runway.distanceNM[t] <= 3 * runway.config.ApproachMaxDistanceNM * 10
            /\ HeadingDiff(runway.heading, runway.runwayHeading[t])
                  <= 2 * runway.config.ApproachHeadingToleranceDeg
            /\ HeadingDiff(runway.heading, runway.bearingToStation) >= 90)
        => runway.result.found

\* C24: IcaoToTailNumber is invertible on the addresses it accepts: every
\* valid US address (A00001-ADF7C7) and every valid Canadian address (C-F and
\* C-G ranges) is accepted and maps to a well-formed tail number from which
\* the address is recovered, so distinct addresses give distinct tails and
\* icaoToTail(tailToIcao(t)) = t for every tail produced.
C24_TailNumberRoundTrip ==
    tail.pc = "done" =>
        LET t == tail.result.tail
            n == ParseHex(Tail(tail.icao))
            rest == SubSeq(t, 3, Len(t))
            letters == {i \in 1..Len(rest) : ~IsDigit(rest[i])}
            wellFormedUS ==
                /\ Len(t) >= 2 /\ Len(t) <= 6
                /\ t[1] = "N" /\ IsDigit(t[2]) /\ t[2] # "0"
                /\ \A i \in letters : IsUSLetter(rest[i]) /\ i >= Len(rest) - 1
                /\ \A i \in letters : \A j \in i..Len(rest) : j \in letters
            wellFormedCA ==
                /\ Len(t) = 6
                /\ t[1] = "C" /\ t[2] = "-" /\ t[3] \in {"F", "G"}
                /\ \A i \in 4..6 : IsCALetter(t[i])
        IN  /\ (Len(tail.icao) = 6 /\ tail.icao[1] = "A" /\ tail.icao[6] # "G")
                => (tail.result.ok <=> (n >= 1 /\ n <= 915399))
            /\ (Len(tail.icao) = 6 /\ tail.icao[1] = "C")
                => (tail.result.ok <=> (n >= 1 /\ n <= 2 * 17576))
            /\ tail.result.ok =>
                  /\ tail.icao[1] \in {"A", "C"}
                  /\ tail.icao[1] = "A" => wellFormedUS
                  /\ tail.icao[1] = "C" => wellFormedCA
                  /\ TailToIcao(t) = tail.icao
                  /\ IcaoToTailNumber(TailToIcao(t)) = tail.result

\* C24 witness: the last valid US address, ADF7C7, gave N99999.
C24_Witness ==
    /\ tail.pc = "done" /\ tail.result.ok
    /\ tail.icao = <<"A", "D", "F", "7", "C", "7">>
    /\ tail.result.tail = <<"N", "9", "9", "9", "9", "9">>

\* C25: fetchWithRetry makes at most maxRetries+1 HTTP attempts, waits
\* 500 ms x 2^(k-1) before the k-th retry, stops at the first attempt that
\* answers 200 with decodable JSON and returns its data, otherwise returns
\* the error of the last attempt with no data; it never returns neither data
\* nor error.
C25_RetriesBackoffAndResult ==
    fetch.pc # "idle" =>
        /\ fetch.requests <= fetch.maxRetries + 1
        /\ \A k \in 1..Len(fetch.waits) : fetch.waits[k] = 500 * 2 ^ (k - 1)
        /\ fetch.pc = "done" =>
              /\ fetch.err # "nil" =>
                    /\ fetch.data = "nil" /\ fetch.err = fetch.lastErr
                    /\ fetch.requests = fetch.maxRetries + 1
              /\ ~(fetch.data = "nil" /\ fetch.err = "nil")

\* C26: over any sequence of Read calls on a WAVReader, the bytes returned so
\* far are the 44-byte header followed by the bytes of the underlying reader
\* in order: the header is emitted once, before any PCM byte, and never
\* split, whatever buffer sizes the caller passes.
C26_HeaderOnceThenStream ==
    /\ wav.out = IF wav.headerSent THEN header \o PCM(0, wav.consumed) ELSE <<>>
    /\ ~wav.headerSent => wav.consumed = 0
    /\ wav.n <= wav.len
    /\ Len(wav.out) = 0 \/ Len(wav.out) >= headerLen

\* C26 witness: after reads with short, exact and long buffers every byte of
\* the underlying reader has been returned behind the header, the last of
\* them by a Read that returned one byte.
C26_Witness ==
    /\ wav.headerSent /\ wav.consumed = MaxPCM /\ wav.n = 1
    /\ wav.out = header \o PCM(0, MaxPCM)

\* C27: the aircraft list assembled for a template context contains exactly
\* the aircraft whose status is active and that are within airportRangeNM of
\* the station or airborne, in the order the tracker returned them,
\* truncated to at most maxAircraft entries; a stale or signal_lost aircraft
\* is never included.
C27_ActiveInRangeOrAirborne ==
    agg.pc = "done" =>
        LET ac(i) == agg.allAircraft[i]
            wanted == SelectIndexes(agg.allAircraft, 1,
                          {i \in 1..Len(agg.allAircraft) :
                              /\ ac(i).Status = "active"
                              /\ ac(i).near \/ ~ac(i).OnGround})
        IN  /\ agg.result = SubSeq(wanted, 1, Min(Len(wanted), agg.maxAircraft))
            /\ \A i \in 1..Len(agg.result) :
                   agg.allAircraft[agg.result[i]].Status = "active"

\* C28: for every outbound message type of the hub (aircraft_added,
\* aircraft_update, aircraft_removed, transcription, transcription_update,
\* clearance_issued, status_update, phase_change), when the WebSocketClient
\* receives a message of that type every listener registered for that type
\* is notified exactly once with the message data.
C28_EveryListenerNotifiedOnce ==
    [][\A type \in {"aircraft_added", "aircraft_update", "aircraft_removed",
                     "transcription", "transcription_update",
                     "clearance_issued", "status_update", "phase_change"},
          data \in MessageData :
          OnMessage(type, data) =>
              calls' = [i \in 1..Len(listeners[type])
                            |-> <<listeners[type][i], data>>]]_vars

\* C29: the batch submitted to the language model is ordered by timestamp,
\* oldest first: for every two adjacent rows of the marshalled batch (context
\* and new rows together) the earlier row's timestamp is not later than the
\* next row's.
C29_BatchOldestFirst ==
    submit.pc = "marshalled" =>
        /\ SeqToSet(submit.batch)
              = SeqToSet(BatchEntries(submit.contextRecords, submit.records))
        /\ Len(submit.batch) = Len(submit.contextRecords) + Len(submit.records)
        /\ \A i \in 1..(Len(submit.batch) - 1) :
               submit.batch[i].Timestamp <= submit.batch[i + 1].Timestamp

\* C29 witness: a context row newer than a new row, and new rows fetched
\* newest first, were marshalled oldest first.
C29_Witness ==
    /\ submit.pc = "marshalled"
    /\ Len(submit.contextRecords) = 1 /\ Len(submit.records) = 2
    /\ submit.contextRecords[1].CreatedAt > submit.records[1].CreatedAt
    /\ submit.records[1].CreatedAt > submit.records[2].CreatedAt
    /\ submit.batch[1].ID = submit.records[2].ID
    /\ submit.batch[3].ID = submit.contextRecords[1].ID

\* C30: a Read by one reader changes only that reader's own read cursor: every
\* step of the Read leaves the buffer contents, the write index, the set of
\* registered readers and every other reader's state unchanged.
C30_ReadChangesOnlyOwnCursor ==
    [][\A h \in Handles :
          (\/ \E n \in 1..MaxRead : ReadBegin(h, n)
           \/ WaiterPark(h) \/ ReadWake(h) \/ ReadCopy(h) \/ ReadUpdate(h))
          => /\ buffer' = buffer
             /\ writeIndex' = writeIndex
             /\ written' = written
             /\ closed' = closed
             /\ \A id \in Ids : readers'[id].exists = readers[id].exists
             /\ \A id \in Ids \ {HandleId[h]} : readers'[id] = readers[id]
             /\ ~ReadUpdate(h) =>
                   \A id \in Ids : readers[id].exists =>
                       readers'[id].readIndex = readers[id].readIndex]_vars

\* C30 witness: of two readers registered before the first byte, one has read
\* everything written and the other's cursor is still where it was created.
C30_Witness ==
    /\ readers["a"].exists /\ readers["b"].exists
    /\ readers["a"].born = 0 /\ readers["b"].born = 0
    /\ written > 0 /\ written < BufferSize
    /\ readers["a"].readIndex = writeIndex
    /\ readers["b"].readIndex = 0
    /\ client["h1"].pc = "idle" /\ client["h2"].pc = "idle"


\* C31: in the header createWAVHeader returns, the data-size field (bytes
\* 40-43, little-endian) holds 0xFFFFFFFF, and the RIFF chunk-size field is
\* 36 + data size computed without 32-bit wrap-around.
C31_DataSizeIsMaxUint32 ==
    hdr.pc = "done" =>
        /\ Len(hdr.bytes) = headerLen
        /\ Uint32At(hdr.bytes, 40) = MaxUint32
        /\ headerChunkSize.carry = 0
        /\ Uint32At(hdr.bytes, 4) = [hi |-> headerChunkSize.hi, lo |-> headerChunkSize.lo]


\* C32: one StreamAudio call makes at most 3 connection attempts; a transport
\* error and a non-200 status both count as a failed attempt; between
\* attempts it waits 1 s, then 2 s; it returns the stream at the first 200
\* response, an error and no stream after the third failure, and the
\* context's error without a further attempt when the context is cancelled
\* during a backoff wait.
C32_ThreeAttemptsWithBackoff ==
    stream.pc # "idle" =>
        LET log == stream.log
            attempts == SelectSeq(log, LAMBDA e : e.k = "do")
            waits == SelectSeq(log, LAMBDA e : e.k = "wait")
            failed == {i \in 1..Len(log) : log[i].k = "do" /\ ~Success(log[i])}
        IN  /\ Len(attempts) <= 3
            /\ \A i \in 1..Len(log) : (log[i].k = "do") <=> (i % 2 = 1)
            /\ \A j \in 1..Len(waits) : waits[j].delay = 2 ^ (j - 1)
            /\ \A i \in 1..Len(log) :
                 /\ log[i].k = "do" /\ Success(log[i]) =>
                      i = Len(log) /\ stream.pc = "done" /\ stream.result = "stream"
                 /\ log[i].k = "wait" /\ log[i].ctxDone =>
                      /\ i = Len(log) /\ stream.pc = "done"
                      /\ stream.result = "nil" /\ stream.err = "ctx.Err()"
                 /\ i \in failed /\ Len(attempts) < 3 /\ i = Len(log) =>
                      stream.pc = "select"
            /\ stream.pc = "done" =>
                 \/ /\ stream.result = "stream" /\ stream.err = "nil"
                    /\ log # <<>> /\ Success(log[Len(log)])
                 \/ /\ stream.result = "nil" /\ stream.err # "nil"
                    /\ \/ Len(attempts) = 3 /\ Cardinality(failed) = 3
                          /\ log[Len(log)].k = "do"
                       \/ log # <<>> /\ log[Len(log)].k = "wait"
                          /\ log[Len(log)].ctxDone /\ stream.err = "ctx.Err()"
                       \/ log = <<>> /\ ~stream.urlOK

\* C32 witness: the call has failed once with a transport error and once
\* with a status other than 200, has waited 1 s and 2 s, and has returned the
\* stream of the third attempt.
C32_Witness ==
    /\ stream.pc = "done" /\ stream.result = "stream"
    /\ Len(stream.log) = 5
    /\ stream.log[1].err /\ ~stream.log[3].err
    /\ stream.log[2].delay = 1 /\ stream.log[4].delay = 2


\* C33: the WebSocketClient notifies listeners in the order in which the
\* messages arrived on the socket: every listener call for an earlier
\* message comes before every listener call for a later one, so the added,
\* update and removed events of one hex reach the listeners in the order the
\* server sent them.
C33_ListenersCalledInArrivalOrder ==
    /\ \A i, j \in 1..Len(inbox.notified) :
           i < j => inbox.notified[i][2] <= inbox.notified[j][2]
    /\ \A i \in 1..Len(inbox.notified) :
           /\ inbox.notified[i][2] \in 1..inbox.received
           /\ \A k \in 1..Len(inbox.timers) :
                  inbox.notified[i][2] < inbox.timers[k].seq

\* C33 witness: three messages have arrived, every deferred handler has
\* run, and listeners have been called for the first and for the third.
C33_Witness ==
    /\ inbox.received = 3 /\ inbox.timers = <<>>
    /\ Len(inbox.notified) >= 2
    /\ inbox.notified[1][2] = 1
    /\ inbox.notified[Len(inbox.notified)][2] = 3


\* C38: the WebSocketClient schedules at most maxReconnectAttempts (10)
\* reconnects in a row without a successful open or a call of
\* resetReconnectAttempts() in between, whatever the order of open, close and
\* error events; the count starts again when reconnectAttempts is set to 0.
C38_AtMostTenReconnectsSinceReset ==
    /\ sock.sinceReset <= maxReconnectAttempts
    /\ sock.reconnectAttempts = sock.sinceReset

\* C38 witness: ten reconnects were scheduled and made without an open, the
\* last socket has closed too, and no further reconnect is pending.
C38_Witness ==
    /\ sock.autoReconnect /\ sock.connection = "closed"
    /\ sock.reconnectAttempts = maxReconnectAttempts
    /\ sock.sinceReset = maxReconnectAttempts
    /\ sock.reconnectTimeout = "fired" /\ sock.olderTimers = 0

\* C38 as stated: at most maxReconnectAttempts reconnects are scheduled in a
\* row without a successful open in between.
C38_AtMostTenReconnectsSinceOpen ==
    sock.sinceOpen <= maxReconnectAttempts


\* C39: only the current socket drives the client's connection state: a
\* close or error event of a socket that connect() or disconnect() has
\* already replaced or dropped schedules no reconnect, does not clear the
\* in-progress flag of a newer attempt, and so never leads to the current
\* connection being closed by a reconnect.
C39_StaleSocketEventsChangeNothing ==
    [][(StaleCloseEvent \/ StaleErrorEvent) =>
          /\ sock'.isReconnecting = sock.isReconnecting
          /\ sock'.reconnectAttempts = sock.reconnectAttempts
          /\ sock'.reconnectTimeout = sock.reconnectTimeout
          /\ sock'.olderTimers = sock.olderTimers]_vars


\* C34: PostProcessor.Stop always returns: it cancels the loop and waits for
\* a batch that is in flight (whose language-model call the cancelled context
\* aborts), and after Stop has returned no further batch is fetched or
\* processed.
C34_StopWaitsAndReturns ==
    /\ [](proc.stopped =>
            /\ proc.ctxDone
            /\ \A i \in 1..MaxLoops : loops[i].pc \notin {"select", "fetch", "lm", "apply"})
    /\ [](proc.stop = "waiting" => proc.ctxDone)
    /\ (proc.stop = "waiting") ~> (proc.stop = "idle" /\ proc.stopped)

\* C34 witness: Stop has returned after a loop whose batch was in flight had
\* its language-model call aborted and exited.
C34_Witness ==
    /\ proc.stopped /\ proc.stop = "idle" /\ proc.wg = 0
    /\ \E i \in 1..MaxLoops : loops[i].aborted /\ loops[i].pc = "exited"


\* C35: assembling a template context is read-only with respect to the
\* tracker's data: getAircraftData assigns no field of any aircraft record it
\* obtained from the tracker service.
C35_GetAircraftDataWritesNoRecord ==
    agg.pc = "done" => agg.written = {}


\* C36: every handle returned by CreateReader is an independent listener,
\* also when CreateReader was called again with an id that is still in use:
\* a Read through one handle does not move the position another handle
\* reads from (so the other handle still receives every byte written after
\* its creation), and closing one handle leaves every other handle usable.
C36_HandlesAreIndependent ==
    [][\A h \in SharedHandles, k \in SharedHandles :
          (h # k /\ client[h].held /\ client[k].held
                 /\ readers[HandleId[k]].exists) =>
             /\ ReadUpdate(h) =>
                   readers'[HandleId[k]].readIndex = readers[HandleId[k]].readIndex
             /\ RemoveReader(HandleId[h]) => readers'[HandleId[k]].exists]_vars


\* C37: Close is terminal for a MultiReader: after Close every Write leaves
\* the buffer and the write index (and everything else) unchanged and
\* returns a closed-pipe error with 0 bytes written, every Read on any
\* handle, already blocked or started later, returns end-of-stream, and a
\* second Close changes nothing.
C37_CloseIsTerminal ==
    /\ [](closed =>
            /\ ctxDone
            /\ \A h \in Handles :
                   client[h].pc = "wait" => ENABLED ReadCtxDone(h))
    /\ [][closed =>
            /\ closed'
            /\ buffer' = buffer /\ writeIndex' = writeIndex /\ written' = written
            /\ Close => UNCHANGED mrVars
            /\ \A h \in Handles :
                  /\ (\E n \in 1..MaxRead : ReadBegin(h, n)) => client'[h] = Returned
                  /\ ReadWake(h) => client'[h] = Returned
                  /\ client[h].pc = "wait" => client'[h].pc = "wait" \/ client'[h] = Returned]_vars

\* C37 witness: the MultiReader was closed while a Read of h1 was blocked
\* waiting for data, after bytes had been written.
C37_Witness ==
    /\ closed /\ written > 0
    /\ client["h1"].pc = "wait" /\ client["h1"].orphan

=============================================================================
